---- MODULE Spec2Model ----
(***************************************************************************)
(* Shamir secret sharing over GF(2^8) (package shamir): the field engine,  *)
(* Split / Combine, the CRC-32 integrity layer and the secure variants,    *)
(* modelled from the Go sources.                                           *)
(*                                                                         *)
(* A Go []byte is a sequence of numbers in 0..255 (1-based here, 0-based   *)
(* in the source); a nil slice and an empty slice are both << >> except    *)
(* where the code tells them apart.                                        *)
(***************************************************************************)
EXTENDS Integers, Sequences, FiniteSets, TLC

(***************************************************************************)
(* Bounds of the model                                                     *)
(***************************************************************************)
\* longest secret the caller passes to Split
MaxLen == 2
\* largest "small" value of parts (the limits 255 and 256 are added apart)
MaxParts == 3
\* largest number of shares in a hand-made share list given to Combine
MaxShares == 3
\* longest share in a hand-made share list
MaxShareLen == 2

(***************************************************************************)
(* Program constants                                                       *)
(***************************************************************************)
ShareOverhead == 1
\* parts >= 256 is rejected
PartsLimit == 256
\* the reduction polynomial used by buildFieldTables
ReducePoly == 285
\* bytes appended by addIntegrityCheck
ChecksumLen == 4
\* validateIntegrityCheck passes shorter inputs through
MinCheckedLen == 6
\* chunk width of the vectorised loops
ChunkSize == 8

Byte == 0..255

Min(a, b) == IF a < b THEN a ELSE b

(***************************************************************************)
(* Errors (package-level sentinel values)                                  *)
(***************************************************************************)
NoErr == "nil"
ErrEmptySecret == "ErrEmptySecret"
ErrInvalidParts == "ErrInvalidParts"
ErrInvalidThreshold == "ErrInvalidThreshold"
ErrTooFewParts == "ErrTooFewParts"
ErrDifferentLengths == "ErrDifferentLengths"
ErrTooShort == "ErrTooShort"
ErrDuplicatePart == "ErrDuplicatePart"
ErrIntegrityCheckFailed == "ErrIntegrityCheckFailed"
ErrInsufficientShares == "ErrInsufficientShares"
\* fmt.Errorf("failed to generate random coefficients: %w", err)
ErrRandom == "ErrRandom"

\* NewValidationError(field, value, message): a *ValidationError
NewValidationError(field, value, message) ==
    [type |-> "*ValidationError", Field |-> field, Value |-> value, Message |-> message]

\* the Go value behind an error the model names by a string: nil, the
\* *errors.errorString that errors.New returns, or the *fmt.wrapError that
\* fmt.Errorf returns for a %w verb; none of them has fields
ErrorValue(err) ==
    [type |-> IF err = NoErr THEN "nil"
              ELSE IF err = ErrRandom THEN "*fmt.wrapError"
              ELSE "*errors.errorString",
     Field |-> "", Value |-> 0, Message |-> err]

ErrNilShares == "ErrNilShares"

\* a run-time panic (index out of range) in place of an error value
PanicValue == [type |-> "panic", Field |-> "", Value |-> 0, Message |-> "index out of range"]

\* validateSplitParams(secret, parts, threshold): the error value returned
validateSplitParams(secret, parts, threshold) ==
    IF Len(secret) = 0 THEN ErrorValue(ErrEmptySecret)
    ELSE IF parts < 2
    THEN NewValidationError("parts", parts, "shamir: parts must be at least 2")
    ELSE IF parts > 255
    THEN NewValidationError("parts", parts, "shamir: parts must not exceed 255")
    ELSE IF threshold < 2
    THEN NewValidationError("threshold", threshold, "shamir: threshold must be at least 2")
    ELSE IF threshold > parts
    THEN NewValidationError("threshold", threshold, "shamir: threshold cannot exceed parts")
    ELSE ErrorValue(NoErr)

(***************************************************************************)
(* Bitwise exclusive or on naturals (Go's ^ on byte and int)               *)
(***************************************************************************)
RECURSIVE BitXor(_, _)
BitXor(a, b) ==
    IF a = 0 THEN b
    ELSE IF b = 0 THEN a
    ELSE (((a % 2) + (b % 2)) % 2) + 2 * BitXor(a \div 2, b \div 2)

\* a ^ b for bytes, tabulated once: XorTab[a + 1][b + 1]
XorTab == [a \in 1..256 |-> [b \in 1..256 |-> BitXor(a - 1, b - 1)]]

(***************************************************************************)
(* Field engine (field.go)                                                 *)
(***************************************************************************)
\* the loop of buildFieldTables from index i up to (not including) stop:
\* generator is the running power of 2, t the tables written so far.  The
\* 255 passes are run in blocks of 16 to keep the evaluation shallow.
RECURSIVE buildLoop(_, _, _, _)
buildLoop(i, stop, generator, t) ==
    IF i >= stop THEN [generator |-> generator, exp |-> t.exp, log |-> t.log]
    ELSE LET t1 == [exp |-> [t.exp EXCEPT ![i] = generator % 256],
                    log |-> [t.log EXCEPT ![generator] = i]]
             g1 == generator * 2
             g2 == IF (g1 \div 256) % 2 # 0 THEN BitXor(g1, ReducePoly) ELSE g1
         IN buildLoop(i + 1, stop, g2, t1)

RECURSIVE buildBlocks(_, _)
buildBlocks(i, r) ==
    IF i >= 255 THEN r
    ELSE LET r1 == buildLoop(i, Min(i + 16, 255), r.generator, r)
         IN IF r1.generator >= 0 THEN buildBlocks(i + 16, r1) ELSE r1

\* mutant: the special cases after the loop (exp[255], log[0]) are left out
buildFieldTablesLoopOnly ==
    LET zero == [generator |-> 1,
                 exp |-> [i \in 0..255 |-> 0], log |-> [i \in 0..255 |-> 0]]
        t == buildBlocks(0, zero)
    IN [exp |-> t.exp, log |-> t.log]

buildFieldTables ==
    LET zero == [generator |-> 1,
                 exp |-> [i \in 0..255 |-> 0], log |-> [i \in 0..255 |-> 0]]
        t == buildBlocks(0, zero)
    IN [exp |-> [t.exp EXCEPT ![255] = t.exp[0]],
        log |-> [t.log EXCEPT ![0] = 255]]

\* var tables fieldTables, after init()
tables == buildFieldTables

gfAdd(a, b) == XorTab[a + 1][b + 1]

\* mutant: the sum of logarithms is reduced modulo 256 instead of 255
gfMultMod256(a, b) ==
    IF a = 0 \/ b = 0 THEN 0
    ELSE tables.exp[(tables.log[a] + tables.log[b]) % 256]

\* mutant: the zero operands are not special-cased
gfMultLogOfZero(a, b) ==
    tables.exp[(tables.log[a] + tables.log[b]) % 255]

gfMult(a, b) ==
    IF a = 0 \/ b = 0 THEN 0
    ELSE tables.exp[(tables.log[a] + tables.log[b]) % 255]

\* the outcome of a call that panics (no byte value)
GfPanic == -1

\* gfDiv of gf256.go: a zero dividend returns 0 before the divisor is looked at
gf256_gfDiv(a, b) ==
    IF a = 0 THEN 0
    ELSE IF b = 0 THEN GfPanic
    ELSE tables.exp[(tables.log[a] - tables.log[b] + 255) % 255]

gfDiv(a, b) ==
    IF b = 0 THEN GfPanic
    ELSE IF a = 0 THEN 0
    ELSE tables.exp[(tables.log[a] - tables.log[b] + 255) % 255]

\* mutant: the exponent of the inverse is one too small
gfInvOffByOne(a) ==
    IF a = 0 THEN GfPanic
    ELSE tables.exp[254 - tables.log[a]]

\* gfInv panics on a = 0
gfInv(a) ==
    IF a = 0 THEN GfPanic
    ELSE tables.exp[255 - tables.log[a]]

\* gfMultSlice(dst, src, scalar): the new contents of dst.  The chunked loop
\* and the remainder loop run the same body on every index of src.  (A byte
\* slice is written << >> \o [...] so that it is a sequence value.)
gfMultSlice(dst, src, scalar) ==
    IF Len(dst) # Len(src) THEN GfPanic
    ELSE IF scalar = 0 THEN [i \in 1..Len(dst) |-> 0]
    ELSE IF scalar = 1 THEN src
    ELSE LET scalarLog == tables.log[scalar]
         IN << >> \o [i \in 1..Len(src) |->
                        LET v == src[i]
                        IN IF v = 0 THEN 0
                           ELSE tables.exp[(tables.log[v] + scalarLog) % 255]]

\* gfAddSlice(dst, a, b): the new contents of dst (64-bit words, then bytes)
gfAddSlice(dst, a, b) ==
    IF Len(dst) # Len(a) \/ Len(dst) # Len(b) THEN GfPanic
    ELSE << >> \o [i \in 1..Len(dst) |-> XorTab[a[i] + 1][b[i] + 1]]

\* copy(dst, src): the new contents of dst
CopyInto(dst, src) ==
    << >> \o [i \in 1..Len(dst) |-> IF i <= Len(src) THEN src[i] ELSE dst[i]]

\* the Horner loop of gfPolyEvalSlice, i running from len-2 down to 0
\* (coefficients[i + 1] is the source's coefficients[i])
RECURSIVE polyLoop(_, _, _, _)
polyLoop(dst, coefficients, x, i) ==
    IF i < 0 THEN dst
    ELSE LET m == gfMultSlice(dst, dst, x)
         IN polyLoop(gfAddSlice(m, m, coefficients[i + 1]), coefficients, x, i - 1)

\* gfPolyEvalSlice(dst, coefficients, x): the new contents of dst
gfPolyEvalSlice(dst, coefficients, x) ==
    IF Len(coefficients) = 0 \/ Len(dst) = 0 THEN dst
    ELSE polyLoop(CopyInto(dst, coefficients[Len(coefficients)]),
                  coefficients, x, Len(coefficients) - 2)

\* mutant: index 0 is taken as the highest degree
RECURSIVE gfPolyEvalReversed(_, _)
gfPolyEvalReversed(coefficients, x) ==
    IF Len(coefficients) = 0 THEN 0
    ELSE IF Len(coefficients) = 1 THEN coefficients[1]
    ELSE gfAdd(gfMult(gfPolyEvalReversed(SubSeq(coefficients, 1, Len(coefficients) - 1), x), x),
               coefficients[Len(coefficients)])

\* the Horner loop of gfPolyEval, i running from len-2 down to 0
RECURSIVE evalLoop(_, _, _, _)
evalLoop(coefficients, x, i, result) ==
    IF i < 0 THEN result
    ELSE evalLoop(coefficients, x, i - 1, gfAdd(gfMult(result, x), coefficients[i + 1]))

gfPolyEval(coefficients, x) ==
    IF Len(coefficients) = 0 THEN 0
    ELSE evalLoop(coefficients, x, Len(coefficients) - 2, coefficients[Len(coefficients)])

(***************************************************************************)
(* The slice operations as they run in memory.  mem is the sequence of     *)
(* the buffers involved; an operation reads and writes mem byte by byte    *)
(* (or word by word), so that a destination that is also a source is read  *)
(* after it was written wherever the code does so.                         *)
(***************************************************************************)
\* the byte loops of gfMultSlice (lines 119-142) from index i on: dst is
\* buffer d, src is buffer s
RECURSIVE multSliceLoop(_, _, _, _, _)
multSliceLoop(mem, d, s, scalarLog, i) ==
    IF i > Len(mem[s]) THEN mem
    ELSE LET v == mem[s][i]
             w == IF v = 0 THEN 0 ELSE tables.exp[(tables.log[v] + scalarLog) % 255]
         IN multSliceLoop([mem EXCEPT ![d][i] = w], d, s, scalarLog, i + 1)

\* gfMultSlice(mem[d], mem[s], scalar): the memory afterwards
gfMultSliceAt(mem, d, s, scalar) ==
    IF scalar = 0 THEN [mem EXCEPT ![d] = [i \in 1..Len(mem[d]) |-> 0]]
    ELSE IF scalar = 1 THEN [mem EXCEPT ![d] = CopyInto(mem[d], mem[s])]
    ELSE multSliceLoop(mem, d, s, tables.log[scalar], 1)

\* the loops of gfAddSlice (lines 155-168) from index i on: a 64-bit word is
\* loaded from each source and stored while 8 bytes are left, then bytes
RECURSIVE addSliceLoop(_, _, _, _, _)
addSliceLoop(mem, d, a, b, i) ==
    IF i > Len(mem[d]) THEN mem
    ELSE IF i + ChunkSize - 1 <= Len(mem[d])
    THEN addSliceLoop(
             [mem EXCEPT ![d] = [j \in 1..Len(mem[d]) |->
                                    IF j >= i /\ j < i + ChunkSize
                                    THEN XorTab[mem[a][j] + 1][mem[b][j] + 1]
                                    ELSE mem[d][j]]],
             d, a, b, i + ChunkSize)
    ELSE addSliceLoop([mem EXCEPT ![d][i] = XorTab[mem[a][i] + 1][mem[b][i] + 1]],
                      d, a, b, i + 1)

\* gfAddSlice(mem[d], mem[a], mem[b]): the memory afterwards
gfAddSliceAt(mem, d, a, b) == addSliceLoop(mem, d, a, b, 1)

\* the Horner loop of gfPolyEvalSlice on memory: buffer 1 is dst, buffer
\* i + 2 is the source's coefficients[i]
RECURSIVE polyLoopAt(_, _, _)
polyLoopAt(mem, x, i) ==
    IF i < 0 THEN mem
    ELSE polyLoopAt(gfAddSliceAt(gfMultSliceAt(mem, 1, 1, x), 1, 1, i + 2), x, i - 1)

\* gfPolyEvalSlice(dst, coefficients, x) on memory: dst and the coefficient
\* buffers when it returns
gfPolyEvalSliceAt(dst, coefficients, x) ==
    LET mem == <<dst>> \o coefficients
        n == Len(coefficients)
    IN IF n = 0 \/ Len(dst) = 0 THEN mem
       ELSE polyLoopAt([mem EXCEPT ![1] = CopyInto(mem[1], mem[n + 1])], x, n - 2)

(***************************************************************************)
(* Secure memory (secureZeroBytes, secureOverwriteSlice)                   *)
(***************************************************************************)
\* secureZeroBytes(b): the new contents of b
secureZeroBytes(b) == [i \in 1..Len(b) |-> 0]

\* mutant: only the full 8-byte chunks are cleared
secureOverwriteWholeWords(slice) ==
    LET n == Len(slice)
    IN [j \in 1..n |->
          LET i == ChunkSize * ((j - 1) \div ChunkSize)
              end == Min(i + ChunkSize, n)
          IN IF end - i >= ChunkSize THEN 0 ELSE slice[j]]

\* secureOverwriteSlice(slice): the new contents of slice.  Index i (0-based)
\* lies in the chunk starting at 8 * (i / 8); a full chunk is cleared by one
\* 64-bit store, a short last chunk byte by byte.
secureOverwriteSlice(slice) ==
    LET n == Len(slice)
    IN [j \in 1..n |->
          LET i == ChunkSize * ((j - 1) \div ChunkSize)
              end == Min(i + ChunkSize, n)
          IN IF end - i >= ChunkSize THEN 0 ELSE 0]

(***************************************************************************)
(* Split (shamir.go)                                                       *)
(***************************************************************************)
\* a nil slice where the code returns nil
Nil == << -1 >>

\* make([]byte, n)
MakeBytes(n) == << >> \o [i \in 1..n |-> 0]

\* mutant: the coefficient buffers are never filled from rand.Read
SplitCoeffsNoRandom(secret, threshold, rnd) ==
    [i \in 1..threshold |->
        IF i = 1 THEN CopyInto(MakeBytes(Len(secret)), secret) ELSE MakeBytes(Len(secret))]

\* the coefficient buffers after the loop at lines 41-46: coeffs[0] is a copy
\* of the secret, coeffs[i] holds the bytes rand.Read delivered (rnd[i])
SplitCoeffs(secret, threshold, rnd) ==
    << >> \o [i \in 1..threshold |->
                IF i = 1 THEN CopyInto(MakeBytes(Len(secret)), secret) ELSE rnd[i - 1]]

\* mutant: the x-coordinates start at 0 instead of 1
SplitShareFromZero(secret, coeffs, i) ==
    LET x == i % 256
        payload == gfPolyEvalSlice(MakeBytes(Len(secret)), coeffs, x)
    IN <<x>> \o payload

\* the body of the loop at lines 48-54 for the 0-based index i
SplitShare(secret, coeffs, i) ==
    LET x == (i + 1) % 256
        payload == gfPolyEvalSlice(MakeBytes(Len(secret)), coeffs, x)
    IN <<x>> \o payload

\* mutant: the upper limit of parts is off by one, 256 is accepted
SplitAccepts256(secret, parts, threshold, rnd, failAt) ==
    IF Len(secret) = 0 THEN [shares |-> Nil, err |-> ErrEmptySecret, coeffs |-> << >>]
    ELSE IF parts < 2 \/ parts > PartsLimit
    THEN [shares |-> Nil, err |-> ErrInvalidParts, coeffs |-> << >>]
    ELSE IF threshold < 2 \/ threshold > parts
    THEN [shares |-> Nil, err |-> ErrInvalidThreshold, coeffs |-> << >>]
    ELSE IF failAt >= 1 /\ failAt < threshold
    THEN [shares |-> Nil, err |-> ErrRandom, coeffs |-> << >>]
    ELSE LET coeffs == SplitCoeffs(secret, threshold, rnd)
         IN [shares |-> [i \in 1..parts |-> SplitShare(secret, coeffs, i - 1)],
             err |-> NoErr,
             coeffs |-> [i \in 1..threshold |-> secureZeroBytes(coeffs[i])]]

\* Split(secret, parts, threshold) when rand.Read fills the coefficient
\* buffers with rnd (failAt = 0), or fails on coefficient failAt (> 0).
\* coeffs is the contents of the coefficient buffers when Split returns.
Split(secret, parts, threshold, rnd, failAt) ==
    IF Len(secret) = 0 THEN [shares |-> Nil, err |-> ErrEmptySecret, coeffs |-> << >>]
    ELSE IF parts < 2 \/ parts >= PartsLimit
    THEN [shares |-> Nil, err |-> ErrInvalidParts, coeffs |-> << >>]
    ELSE IF threshold < 2 \/ threshold > parts
    THEN [shares |-> Nil, err |-> ErrInvalidThreshold, coeffs |-> << >>]
    ELSE IF failAt >= 1 /\ failAt < threshold
    THEN [shares |-> Nil, err |-> ErrRandom,
          coeffs |-> [i \in 1..threshold |->
                        IF i = 1 THEN secret
                        ELSE IF i - 1 < failAt THEN rnd[i - 1]
                        ELSE IF i - 1 = failAt THEN MakeBytes(Len(secret))
                        ELSE << >>]]
    ELSE LET coeffs == SplitCoeffs(secret, threshold, rnd)
         IN [shares |-> [i \in 1..parts |-> SplitShare(secret, coeffs, i - 1)],
             err |-> NoErr,
             coeffs |-> [i \in 1..threshold |-> secureZeroBytes(coeffs[i])]]

(***************************************************************************)
(* Combine (shamir.go)                                                     *)
(***************************************************************************)
\* the inner loop of lagrangeInterpolate (lines 120-127) from j on, for the
\* 1-based i: <<numerator, denominator>>
RECURSIVE basisLoop(_, _, _, _, _, _)
basisLoop(xCoords, x, i, j, numerator, denominator) ==
    IF j > Len(xCoords) THEN <<numerator, denominator>>
    ELSE IF i = j THEN basisLoop(xCoords, x, i, j + 1, numerator, denominator)
    ELSE basisLoop(xCoords, x, i, j + 1,
                   gfMult(numerator, gfAdd(x, xCoords[j])),
                   gfMult(denominator, gfAdd(xCoords[i], xCoords[j])))

\* the outer loop of lagrangeInterpolate (lines 116-136) from i on
RECURSIVE lagrangeLoop(_, _, _, _, _)
lagrangeLoop(xCoords, yCoords, x, i, result) ==
    IF i > Len(xCoords) THEN result
    ELSE LET nd == basisLoop(xCoords, x, i, 1, 1, 1)
         IN IF nd[2] = 0
            THEN lagrangeLoop(xCoords, yCoords, x, i + 1, result)
            ELSE LET basis == gfDiv(nd[1], nd[2])
                     term == gfMult(yCoords[i], basis)
                 IN lagrangeLoop(xCoords, yCoords, x, i + 1, gfAdd(result, term))

\* mutant: only the first two points are interpolated
lagrangeFirstTwo(xCoords, yCoords, x) ==
    lagrangeLoop(SubSeq(xCoords, 1, 2), SubSeq(yCoords, 1, 2), x, 1, 0)

\* mutant: the polynomial is evaluated at 1 whatever point is asked for
lagrangeAtOne(xCoords, yCoords, x) == lagrangeLoop(xCoords, yCoords, 1, 1, 0)

lagrangeInterpolate(xCoords, yCoords, x) == lagrangeLoop(xCoords, yCoords, x, 1, 0)

\* the terms i for which the branch at lines 129-131 is taken (denominator
\* 0, the term is skipped) in a call lagrangeInterpolate(xCoords, _, x)
SkippedTerms(xCoords, x) ==
    {i \in 1..Len(xCoords) : basisLoop(xCoords, x, i, 1, 1, 1)[2] = 0}

\* mutant: only neighbouring shares are compared
HasDuplicateAdjacent(xCoords) ==
    \E i \in 1..(Len(xCoords) - 1) : xCoords[i] = xCoords[i + 1]

\* mutant: only the first share is compared with the others
HasDuplicateOfFirst(xCoords) ==
    \E j \in 2..Len(xCoords) : xCoords[1] = xCoords[j]

\* the duplicate scan at lines 86-92
HasDuplicate(xCoords) ==
    \E i \in 1..Len(xCoords) : \E j \in (i + 1)..Len(xCoords) : xCoords[i] = xCoords[j]

\* Combine(parts): the secret, the error and the number of calls of
\* lagrangeInterpolate made before returning
Combine(list) ==
    IF Len(list) < 2 THEN [secret |-> Nil, err |-> ErrTooFewParts, calls |-> 0]
    ELSE IF Len(list[1]) < 2 THEN [secret |-> Nil, err |-> ErrTooShort, calls |-> 0]
    ELSE IF \E i \in 2..Len(list) : Len(list[i]) # Len(list[1])
    THEN [secret |-> Nil, err |-> ErrDifferentLengths, calls |-> 0]
    ELSE LET secretLen == Len(list[1]) - ShareOverhead
             xCoords == [i \in 1..Len(list) |-> list[i][1]]
         IN IF HasDuplicate(xCoords)
            THEN [secret |-> Nil, err |-> ErrDuplicatePart, calls |-> 0]
            ELSE [secret |-> [byteIdx \in 1..secretLen |->
                                 LET yCoords == [i \in 1..Len(list) |-> list[i][byteIdx + 1]]
                                 IN lagrangeInterpolate(xCoords, yCoords, 0)],
                  err |-> NoErr,
                  calls |-> secretLen]

(***************************************************************************)
(* Stand-alone validation of share lists (validation.go).  A nil share is  *)
(* the element Nil of the list; the nil list is told by a flag.            *)
(***************************************************************************)
\* len(share): a nil slice has length 0
GoLen(share) == IF share = Nil THEN 0 ELSE Len(share)

\* the bytes Combine sees in a share: it only takes len and indexes
GoBytes(share) == IF share = Nil THEN << >> ELSE share

\* the list Combine sees: a nil list has length 0
GoList(shares, isNil) ==
    IF isNil THEN << >> ELSE [i \in 1..Len(shares) |-> GoBytes(shares[i])]

\* the loop at lines 47-55 from share i on: the error value, nil if none
RECURSIVE lengthLoop(_, _, _)
lengthLoop(shares, expectedLength, i) ==
    IF i > Len(shares) THEN ErrorValue(NoErr)
    ELSE IF shares[i] = Nil
    THEN NewValidationError("share", i - 1, "shamir: share cannot be nil")
    ELSE IF Len(shares[i]) # expectedLength THEN ErrorValue(ErrDifferentLengths)
    ELSE lengthLoop(shares, expectedLength, i + 1)

\* the loop at lines 59-65 from share i on, seen being the keys of the map
RECURSIVE duplicateLoop(_, _, _)
duplicateLoop(shares, seen, i) ==
    IF i > Len(shares) THEN ErrorValue(NoErr)
    ELSE IF GoLen(shares[i]) = 0 THEN PanicValue
    ELSE IF shares[i][1] \in seen
    THEN NewValidationError("share", i - 1, "shamir: duplicate share identifier detected")
    ELSE duplicateLoop(shares, seen \cup {shares[i][1]}, i + 1)

\* mutant: the duplicate scan is left out
validateCombineParamsLengthsOnly(shares, isNil) ==
    IF isNil THEN ErrorValue(ErrNilShares)
    ELSE IF Len(shares) < 2 THEN ErrorValue(ErrTooFewParts)
    ELSE IF GoLen(shares[1]) < 2 THEN ErrorValue(ErrTooShort)
    ELSE lengthLoop(shares, Len(shares[1]), 1)

\* validateCombineParams(shares): the error value returned
validateCombineParams(shares, isNil) ==
    IF isNil THEN ErrorValue(ErrNilShares)
    ELSE IF Len(shares) < 2 THEN ErrorValue(ErrTooFewParts)
    ELSE IF GoLen(shares[1]) < 2 THEN ErrorValue(ErrTooShort)
    ELSE LET e == lengthLoop(shares, Len(shares[1]), 1)
         IN IF e.type # "nil" THEN e ELSE duplicateLoop(shares, {}, 1)

(***************************************************************************)
(* Integrity layer (calculateCRC32, addIntegrityCheck,                     *)
(* validateIntegrityCheck)                                                 *)
(*                                                                         *)
(* A uint32 is the record [hi, lo] of its upper and lower 16 bits.         *)
(***************************************************************************)
\* the reflected IEEE polynomial 0xEDB88320 used by crc32.ChecksumIEEE
CrcPolyHi == 60856
CrcPolyLo == 33568

Xor16(a, b) ==
    XorTab[(a % 256) + 1][(b % 256) + 1] + 256 * XorTab[(a \div 256) + 1][(b \div 256) + 1]

Xor32(a, b) == [hi |-> Xor16(a.hi, b.hi), lo |-> Xor16(a.lo, b.lo)]

\* c >> n for n < 16
Shr32(c, n) ==
    [hi |-> c.hi \div (2 ^ n),
     lo |-> (c.lo \div (2 ^ n)) + (c.hi % (2 ^ n)) * (2 ^ (16 - n))]

\* one entry of the IEEE table: eight conditional shift-and-xor steps
RECURSIVE crcEntry(_, _)
crcEntry(c, k) ==
    IF k = 0 THEN c
    ELSE crcEntry(IF c.lo % 2 = 1
                  THEN Xor32([hi |-> CrcPolyHi, lo |-> CrcPolyLo], Shr32(c, 1))
                  ELSE Shr32(c, 1),
                  k - 1)

crcTable == [i \in 0..255 |-> crcEntry([hi |-> 0, lo |-> i], 8)]

\* the byte-at-a-time update over data[k..]
RECURSIVE crcUpdate(_, _, _)
crcUpdate(crc, data, k) ==
    IF k > Len(data) THEN crc
    ELSE crcUpdate(Xor32(crcTable[XorTab[(crc.lo % 256) + 1][data[k] + 1]], Shr32(crc, 8)),
                   data, k + 1)

\* calculateCRC32(data) = crc32.ChecksumIEEE(data)
calculateCRC32(data) ==
    LET c == crcUpdate([hi |-> 65535, lo |-> 65535], data, 1)
    IN [hi |-> 65535 - c.hi, lo |-> 65535 - c.lo]

\* mutant: the checksum is stored most significant byte first
PutUint32BigEndian(checksum) ==
    << (checksum.hi \div 256) % 256, checksum.hi % 256,
       (checksum.lo \div 256) % 256, checksum.lo % 256 >>

\* byte(checksum), byte(checksum >> 8), byte(checksum >> 16), byte(checksum >> 24)
PutUint32(checksum) ==
    << checksum.lo % 256, (checksum.lo \div 256) % 256,
       checksum.hi % 256, (checksum.hi \div 256) % 256 >>

\* uint32(b[0]) | uint32(b[1])<<8 | uint32(b[2])<<16 | uint32(b[3])<<24
GetUint32(b) == [hi |-> b[3] + 256 * b[4], lo |-> b[1] + 256 * b[2]]

addIntegrityCheck(share) ==
    IF Len(share) < 2 THEN share
    ELSE LET payload == SubSeq(share, 2, Len(share))
             checksum == calculateCRC32(payload)
         IN <<share[1]>> \o payload \o PutUint32(checksum)

\* mutant: the checksum is recomputed over the x-coordinate as well
validateWholeShare(share) ==
    IF Len(share) < MinCheckedLen THEN [share |-> share, err |-> NoErr]
    ELSE LET payloadLen == Len(share) - ChecksumLen
             payload == SubSeq(share, 2, payloadLen)
             expectedChecksum == calculateCRC32(SubSeq(share, 1, payloadLen))
             actualChecksum == GetUint32(SubSeq(share, payloadLen + 1, payloadLen + 4))
         IN IF expectedChecksum # actualChecksum
            THEN [share |-> Nil, err |-> ErrIntegrityCheckFailed]
            ELSE [share |-> <<share[1]>> \o payload, err |-> NoErr]

\* mutant: only inputs shorter than 5 bytes are passed through
validateFromFiveBytes(share) ==
    IF Len(share) < MinCheckedLen - 1 THEN [share |-> share, err |-> NoErr]
    ELSE LET payloadLen == Len(share) - ChecksumLen
             payload == SubSeq(share, 2, payloadLen)
             expectedChecksum == calculateCRC32(payload)
             actualChecksum == GetUint32(SubSeq(share, payloadLen + 1, payloadLen + 4))
         IN IF expectedChecksum # actualChecksum
            THEN [share |-> Nil, err |-> ErrIntegrityCheckFailed]
            ELSE [share |-> <<share[1]>> \o payload, err |-> NoErr]

\* validateIntegrityCheck(share): the returned slice and error
validateIntegrityCheck(share) ==
    IF Len(share) < MinCheckedLen THEN [share |-> share, err |-> NoErr]
    ELSE LET payloadLen == Len(share) - ChecksumLen
             payload == SubSeq(share, 2, payloadLen)
             expectedChecksum == calculateCRC32(payload)
             actualChecksum == GetUint32(SubSeq(share, payloadLen + 1, payloadLen + 4))
         IN IF expectedChecksum # actualChecksum
            THEN [share |-> Nil, err |-> ErrIntegrityCheckFailed]
            ELSE [share |-> <<share[1]>> \o payload, err |-> NoErr]

(***************************************************************************)
(* Integrity and secure variants (secure_split_combine.go)                 *)
(***************************************************************************)
SplitWithIntegrity(secret, parts, threshold, rnd, failAt) ==
    LET r == Split(secret, parts, threshold, rnd, failAt)
    IN IF r.err # NoErr THEN [shares |-> Nil, err |-> r.err, coeffs |-> r.coeffs]
       ELSE [shares |-> [i \in 1..Len(r.shares) |-> addIntegrityCheck(r.shares[i])],
             err |-> NoErr, coeffs |-> r.coeffs]

\* the first index (1-based) whose share fails validateIntegrityCheck, or 0
FirstInvalid(list) ==
    IF \E i \in 1..Len(list) : validateIntegrityCheck(list[i]).err # NoErr
    THEN CHOOSE i \in 1..Len(list) :
           /\ validateIntegrityCheck(list[i]).err # NoErr
           /\ \A j \in 1..(i - 1) : validateIntegrityCheck(list[j]).err = NoErr
    ELSE 0

\* mutant: the length and duplicate checks of Combine run before the
\* checksums are validated
CombineWithIntegrityStructureFirst(list) ==
    IF Len(list) < 2 THEN [secret |-> Nil, err |-> ErrTooFewParts, calls |-> 0]
    ELSE IF Combine(list).err \in {ErrDifferentLengths, ErrDuplicatePart}
    THEN [secret |-> Nil, err |-> Combine(list).err, calls |-> 0]
    ELSE IF FirstInvalid(list) # 0
    THEN [secret |-> Nil, err |-> validateIntegrityCheck(list[FirstInvalid(list)]).err,
          calls |-> 0]
    ELSE Combine([i \in 1..Len(list) |-> validateIntegrityCheck(list[i]).share])

\* CombineWithIntegrity(parts); the error of a failed share wraps
\* ErrIntegrityCheckFailed (%w), which errors.Is sees through
CombineWithIntegrity(list) ==
    IF Len(list) < 2 THEN [secret |-> Nil, err |-> ErrTooFewParts, calls |-> 0]
    ELSE IF FirstInvalid(list) # 0
    THEN [secret |-> Nil, err |-> validateIntegrityCheck(list[FirstInvalid(list)]).err,
          calls |-> 0]
    ELSE Combine([i \in 1..Len(list) |-> validateIntegrityCheck(list[i]).share])

\* mutant: the structural checks of Combine run before the threshold check
CombineSecureCombineFirst(list, expectedThreshold) ==
    LET r == Combine(list)
    IN IF r.err # NoErr
       THEN [secret |-> Nil, err |-> r.err, calls |-> r.calls, buffers |-> list]
       ELSE IF expectedThreshold > 0 /\ Len(list) < expectedThreshold
       THEN [secret |-> Nil, err |-> ErrInsufficientShares, calls |-> r.calls, buffers |-> list]
       ELSE [secret |-> r.secret, err |-> NoErr, calls |-> r.calls,
             buffers |-> [i \in 1..Len(list) |-> secureOverwriteSlice(list[i])]]

\* mutant: the share buffers are overwritten whatever Combine returned
CombineSecureOverwriteAlways(list, expectedThreshold) ==
    IF expectedThreshold > 0 /\ Len(list) < expectedThreshold
    THEN [secret |-> Nil, err |-> ErrInsufficientShares, calls |-> 0, buffers |-> list]
    ELSE LET r == Combine(list)
         IN [secret |-> IF r.err # NoErr THEN Nil ELSE r.secret, err |-> r.err,
             calls |-> r.calls,
             buffers |-> [i \in 1..Len(list) |-> secureOverwriteSlice(list[i])]]

\* CombineSecure(parts, expectedThreshold): the result and the contents of
\* the caller's share buffers when it returns
CombineSecure(list, expectedThreshold) ==
    IF expectedThreshold > 0 /\ Len(list) < expectedThreshold
    THEN [secret |-> Nil, err |-> ErrInsufficientShares, calls |-> 0, buffers |-> list]
    ELSE LET r == Combine(list)
         IN IF r.err # NoErr
            THEN [secret |-> Nil, err |-> r.err, calls |-> r.calls, buffers |-> list]
            ELSE [secret |-> r.secret, err |-> NoErr, calls |-> r.calls,
                  buffers |-> [i \in 1..Len(list) |-> secureOverwriteSlice(list[i])]]

\* mutant: the flag asks for more parts than the threshold
SplitSecureStrict(secret, parts, threshold, enforceThreshold, rnd, failAt) ==
    IF enforceThreshold /\ Len(secret) > 0 /\ parts <= threshold
    THEN [shares |-> Nil, err |-> ErrInvalidThreshold, coeffs |-> << >>, buffer |-> secret]
    ELSE LET r == Split(secret, parts, threshold, rnd, failAt)
         IN IF r.err # NoErr
            THEN [shares |-> Nil, err |-> r.err, coeffs |-> r.coeffs, buffer |-> secret]
            ELSE [shares |-> r.shares, err |-> NoErr, coeffs |-> r.coeffs,
                  buffer |-> secureZeroBytes(secret)]

\* mutant: the secret buffer is cleared before the shares are computed
SplitSecureZeroFirst(secret, parts, threshold, enforceThreshold, rnd, failAt) ==
    IF enforceThreshold /\ Len(secret) > 0 /\ parts < threshold
    THEN [shares |-> Nil, err |-> ErrInvalidThreshold, coeffs |-> << >>, buffer |-> secret]
    ELSE LET r == Split(secureZeroBytes(secret), parts, threshold, rnd, failAt)
         IN IF r.err # NoErr
            THEN [shares |-> Nil, err |-> r.err, coeffs |-> r.coeffs, buffer |-> secret]
            ELSE [shares |-> r.shares, err |-> NoErr, coeffs |-> r.coeffs,
                  buffer |-> secureZeroBytes(secret)]

\* SplitSecure(secret, parts, threshold, enforceThreshold): the result and
\* the contents of the caller's secret buffer when it returns (the deferred
\* secureZeroBytes runs on the successful return only)
SplitSecure(secret, parts, threshold, enforceThreshold, rnd, failAt) ==
    IF enforceThreshold /\ Len(secret) > 0 /\ parts < threshold
    THEN [shares |-> Nil, err |-> ErrInvalidThreshold, coeffs |-> << >>, buffer |-> secret]
    ELSE LET r == Split(secret, parts, threshold, rnd, failAt)
         IN IF r.err # NoErr
            THEN [shares |-> Nil, err |-> r.err, coeffs |-> r.coeffs, buffer |-> secret]
            ELSE [shares |-> r.shares, err |-> NoErr, coeffs |-> r.coeffs,
                  buffer |-> secureZeroBytes(secret)]

(***************************************************************************)
(* The caller: state of one use of the package                             *)
(***************************************************************************)
VARIABLES
    pc,         \* where the caller is: "start", "split", "picked", "mutated", "done"
    api,        \* the Split variant called
    capi,       \* the Combine variant (or share-level helper) called
    rndFail,    \* 0, or the coefficient on which rand.Read failed
    secret,     \* the caller's secret buffer
    parts,      \* arguments of the Split call
    threshold,
    out,        \* what the Split variant returned: [shares, err, coeffs]
    input,      \* the caller's share buffers handed to a Combine variant
    passed,     \* contents of those buffers at the moment of the call
    arg,        \* expectedThreshold of the CombineSecure call
    res,        \* what the Combine variant returned: [secret, err, calls]
    mut,        \* <<share index, byte index>> of the byte changed in transit, or <<0, 0>>
    ext,        \* result of addIntegrityCheck
    val,        \* result of validateIntegrityCheck: [share, err]
    held,       \* indices of the shares an outsider has got hold of
    guess,      \* the outsider's candidate for one byte of the secret
    cnt,        \* <<coefficient choices that explain the held shares with the
                \*   true secret byte, the same with the candidate>>
    fld,        \* a call of a scalar field operation: [op, a, b, r]
    tbl,        \* the package variable `tables`: [exp, log]
    inv,        \* the concurrent invocations: [call, pos, k, ret] for each
    heap,       \* the buffers each invocation allocated: [coeffs, shares, secret]
    poly,       \* a call of a polynomial evaluator: [op, dst, coefficients, x, mem, r]
    vld         \* a call of a stand-alone validator: [op, nil, err]; nil says that
                \* the share list handed over is the nil slice

vars == <<pc, api, capi, rndFail, secret, parts, threshold, out, input, passed, arg, res, mut,
          ext, val, held, guess, cnt, fld, tbl, inv, heap, poly, vld>>

\* byte values of the secrets the caller splits
SecretBytes == {0, 83, 255}
\* rand.Read delivers one of these buffers: byte i (1-based) is seed * i
RndSeeds == {0, 1, 142}
RndBufs(n) == {[i \in 1..n |-> (c * i) % 256] : c \in RndSeeds}
\* x-coordinates and payload bytes of hand-made shares
ListXs == {0, 1, 2}
ListBytes == {0, 1}

SeqsUpTo(S, n) == UNION {[1..k -> S] : k \in 0..n}

Secrets == SeqsUpTo(SecretBytes, MaxLen)

\* the small values of parts and the two values around the limit
PartsDomain == (0..MaxParts) \cup {PartsLimit - 1, PartsLimit}

\* largest threshold for which random coefficients are enumerated
MaxThreshold == 3

ThresholdDomain(p) == (0..MaxThreshold) \cup {p + 1}

NoOut == [shares |-> Nil, err |-> NoErr, coeffs |-> << >>]
NoRes == [secret |-> Nil, err |-> NoErr, calls |-> 0]
NoVal == [share |-> Nil, err |-> NoErr]
NoFld == [op |-> "none", a |-> 0, b |-> 0, r |-> 0]

\* what rand.Read can deliver to one Split call
RndFor(s, t) ==
    IF Len(s) = 0 \/ t < 2 \/ t > MaxThreshold
    THEN {<< >>}
    ELSE [1..(t - 1) -> RndBufs(Len(s))]

\* the coefficients on which rand.Read may fail (0: it does not fail)
FailFor(t) == {0} \cup (1..Min(t - 1, MaxThreshold - 1))

\* init() has run and no concurrent invocation is under way
NoPoly == [op |-> "none", dst |-> << >>, coefficients |-> << >>, x |-> 0, mem |-> << >>, r |-> 0]

NoVld == [op |-> "none", nil |-> FALSE, err |-> ErrorValue(NoErr)]

Loaded == tbl = tables /\ inv = << >> /\ heap = << >> /\ poly = NoPoly /\ vld = NoVld

Idle ==
    /\ api = "none" /\ capi = "none" /\ rndFail = 0 /\ out = NoOut /\ input = << >> /\ passed = << >>
    /\ arg = 0 /\ res = NoRes /\ mut = <<0, 0>> /\ ext = << >> /\ val = NoVal
    /\ held = {} /\ guess = 0 /\ cnt = <<0, 0>> /\ fld = NoFld

Init ==
    /\ Loaded
    /\ pc = "start"
    /\ secret \in Secrets
    /\ parts \in PartsDomain
    /\ threshold \in ThresholdDomain(parts)
    /\ Idle

\* shares, err := Split(secret, parts, threshold)
CallSplit(rnd, failAt) ==
    /\ pc = "start"
    /\ out' = Split(secret, parts, threshold, rnd, failAt)
    /\ api' = "Split"
    /\ rndFail' = failAt
    /\ pc' = "split"
    /\ UNCHANGED <<capi, secret, parts, threshold, input, passed, arg, res, mut, ext, val,
                   held, guess, cnt, fld,
                   tbl, inv, heap, poly, vld>>

\* the indices (1-based) of the shares the caller may pick
PickIdx == IF parts <= MaxParts THEN 1..parts ELSE {1, 2, parts}

\* all orderings of all subsets of the pickable indices
Selections ==
    {sel \in SeqsUpTo(PickIdx, Cardinality(PickIdx)) :
        \A i, j \in 1..Len(sel) : i # j => sel[i] # sel[j]}

\* the caller collects some of the returned shares, in any order
Pick(sel) ==
    /\ pc = "split"
    /\ api \in {"Split", "SplitWithIntegrity"}
    /\ out.err = NoErr
    /\ input' = [i \in 1..Len(sel) |-> out.shares[sel[i]]]
    /\ pc' = "picked"
    /\ UNCHANGED <<api, capi, rndFail, secret, parts, threshold, out, passed, arg, res, mut,
                   ext, val, held, guess, cnt, fld,
                   tbl, inv, heap, poly, vld>>

\* secret, err := Combine(input)
CallCombine ==
    /\ pc = "picked"
    /\ passed' = input
    /\ res' = Combine(input)
    /\ capi' = "Combine"
    /\ pc' = "done"
    /\ UNCHANGED <<api, rndFail, secret, parts, threshold, out, input, arg, mut, ext, val,
                   held, guess, cnt, fld,
                   tbl, inv, heap, poly, vld>>

\* secret, err := CombineSecure(input, expectedThreshold)
CallCombineSecure(expectedThreshold) ==
    /\ pc = "picked"
    /\ passed' = input
    /\ arg' = expectedThreshold
    /\ LET r == CombineSecure(input, expectedThreshold)
       IN /\ res' = [f \in {"secret", "err", "calls"} |-> r[f]]
          /\ input' = r.buffers
    /\ capi' = "CombineSecure"
    /\ pc' = "done"
    /\ UNCHANGED <<api, rndFail, secret, parts, threshold, out, mut, ext, val,
                   held, guess, cnt, fld,
                   tbl, inv, heap, poly, vld>>

Next ==
    \/ \E rnd \in RndFor(secret, threshold) :
         \E failAt \in FailFor(threshold) : CallSplit(rnd, failAt)
    \/ \E sel \in Selections : Pick(sel)
    \/ CallCombine

Spec == Init /\ [][Next]_vars

(***************************************************************************)
(* The integrity layer: shares are extended, may be changed in transit,    *)
(* and are validated                                                       *)
(***************************************************************************)
\* bit patterns by which a byte is changed in transit
Masks == {1, 255}

IntegritySecrets == {s \in Secrets : \A i \in 1..Len(s) : s[i] # 0}

IntegrityRnd(s, t) == {r \in RndFor(s, t) : \A i \in 1..Len(r) : r[i][1] # 1}

InitIntegrity ==
    /\ Loaded
    /\ pc = "start"
    /\ secret \in IntegritySecrets
    /\ parts \in 1..MaxParts
    /\ threshold \in 2..MaxThreshold
    /\ Idle

\* shares, err := SplitWithIntegrity(secret, parts, threshold)
CallSplitWithIntegrity(rnd, failAt) ==
    /\ pc = "start"
    /\ out' = SplitWithIntegrity(secret, parts, threshold, rnd, failAt)
    /\ api' = "SplitWithIntegrity"
    /\ rndFail' = failAt
    /\ pc' = "split"
    /\ UNCHANGED <<capi, secret, parts, threshold, input, passed, arg, res, mut, ext, val,
                   held, guess, cnt, fld,
                   tbl, inv, heap, poly, vld>>

\* one byte of one collected share is changed before reconstruction
Mutate(i, j, m) ==
    /\ pc = "picked"
    /\ api = "SplitWithIntegrity"
    /\ i \in 1..Len(input)
    /\ j \in 1..Len(input[i])
    /\ input' = [input EXCEPT ![i][j] = XorTab[input[i][j] + 1][m + 1]]
    /\ mut' = <<i, j>>
    /\ pc' = "mutated"
    /\ UNCHANGED <<api, capi, rndFail, secret, parts, threshold, out, passed, arg, res, ext, val,
                   held, guess, cnt, fld,
                   tbl, inv, heap, poly, vld>>

\* secret, err := CombineWithIntegrity(input)
CallCombineWithIntegrity ==
    /\ pc \in {"picked", "mutated"}
    /\ api \in {"SplitWithIntegrity", "none"}
    /\ passed' = input
    /\ res' = CombineWithIntegrity(input)
    /\ capi' = "CombineWithIntegrity"
    /\ pc' = "done"
    /\ UNCHANGED <<api, rndFail, secret, parts, threshold, out, input, arg, mut, ext, val,
                   held, guess, cnt, fld,
                   tbl, inv, heap, poly, vld>>

\* shareWithIntegrity := addIntegrityCheck(shares[i - 1])
CallAddIntegrityCheck(i) ==
    /\ pc = "split"
    /\ api = "Split"
    /\ out.err = NoErr
    /\ i \in 1..Len(out.shares)
    /\ passed' = <<out.shares[i]>>
    /\ arg' = i
    /\ ext' = addIntegrityCheck(out.shares[i])
    /\ capi' = "addIntegrityCheck"
    /\ pc' = "extended"
    /\ UNCHANGED <<api, rndFail, secret, parts, threshold, out, input, res, mut, val,
                   held, guess, cnt, fld,
                   tbl, inv, heap, poly, vld>>

\* validated, err := validateIntegrityCheck(shareWithIntegrity)
CallValidateIntegrityCheck ==
    /\ pc = "extended"
    /\ val' = validateIntegrityCheck(ext)
    /\ capi' = "validateIntegrityCheck"
    /\ pc' = "validated"
    /\ UNCHANGED <<api, rndFail, secret, parts, threshold, out, input, passed, arg, res, mut, ext,
                   held, guess, cnt, fld,
                   tbl, inv, heap, poly, vld>>

\* the selections that list the shares in increasing index order
AscendingSelections ==
    {sel \in Selections : \A i \in 1..(Len(sel) - 1) : sel[i] < sel[i + 1]}

NextIntegrity ==
    \/ \E rnd \in IntegrityRnd(secret, threshold) : CallSplit(rnd, 0)
    \/ \E rnd \in IntegrityRnd(secret, threshold) : CallSplitWithIntegrity(rnd, 0)
    \/ \E sel \in AscendingSelections : Pick(sel)
    \/ \E i \in 1..MaxParts, j \in 1..(MaxLen + ShareOverhead + ChecksumLen), m \in Masks :
         Mutate(i, j, m)
    \/ CallCombineWithIntegrity
    \/ \E i \in 1..MaxParts : CallAddIntegrityCheck(i)
    \/ CallValidateIntegrityCheck

SpecIntegrity == InitIntegrity /\ [][NextIntegrity]_vars

(***************************************************************************)
(* Secrecy: what fewer than `threshold` shares tell about the secret       *)
(***************************************************************************)
\* largest threshold for which all coefficient choices are enumerated
MaxSecrecyThreshold == 2

SecrecySecrets == {<<0>>, <<83>>, <<255, 1>>, <<142, 0>>}
SecrecySeeds == {1, 142}
Candidates == {0, 1, 83, 255}

\* the coefficient buffers rand.Read fills from one seed
SecrecyRnd(s, t) ==
    {[i \in 1..(t - 1) |-> [q \in 1..Len(s) |-> (c * (i + q - 1)) % 256]] : c \in SecrecySeeds}

\* the number of choices of the random coefficients of byte position p
\* (one byte for each of the threshold - 1 coefficient buffers) for which
\* Split, given b as byte p of the secret, produces at position p of the
\* held shares the bytes the outsider sees
Explanations(X, b, p) ==
    LET sec == [secret EXCEPT ![p] = b]
    IN Cardinality(
         {c \in [1..(threshold - 1) -> Byte] :
            LET rnd == [i \in 1..(threshold - 1) |->
                          << >> \o [q \in 1..Len(secret) |-> IF q = p THEN c[i] ELSE 0]]
                coeffs == SplitCoeffs(sec, threshold, rnd)
            IN \A i \in X :
                 SplitShare(sec, coeffs, i - 1)[p + 1] = out.shares[i][p + 1]})

InitSecrecy ==
    /\ Loaded
    /\ pc = "start"
    /\ secret \in SecrecySecrets
    /\ threshold \in 2..MaxSecrecyThreshold
    /\ parts = threshold
    /\ Idle

\* an outsider obtains threshold - 1 of the shares, looks at byte p and
\* counts how the held shares can be explained with the true byte
Observe(X, p) ==
    /\ pc = "split"
    /\ api = "Split"
    /\ out.err = NoErr
    /\ X \subseteq 1..parts
    /\ Cardinality(X) = threshold - 1
    /\ p \in 1..Len(secret)
    /\ held' = X
    /\ arg' = p
    /\ cnt' = <<Explanations(X, secret[p], p), 0>>
    /\ pc' = "observed"
    /\ UNCHANGED <<api, capi, rndFail, secret, parts, threshold, out, input, passed, res, mut,
                   ext, val, guess, fld,
                   tbl, inv, heap, poly, vld>>

\* the outsider counts how the held shares can be explained with a
\* candidate byte
Guess(b) ==
    /\ pc = "observed"
    /\ guess' = b
    /\ cnt' = <<cnt[1], Explanations(held, b, arg)>>
    /\ pc' = "guessed"
    /\ UNCHANGED <<api, capi, rndFail, secret, parts, threshold, out, input, passed, arg, res,
                   mut, ext, val, held, fld,
                   tbl, inv, heap, poly, vld>>

NextSecrecy ==
    \/ \E rnd \in SecrecyRnd(secret, threshold) : CallSplit(rnd, 0)
    \/ \E X \in SUBSET (1..parts), p \in 1..Len(secret) : Observe(X, p)
    \/ \E b \in Candidates : Guess(b)

SpecSecrecy == InitSecrecy /\ [][NextSecrecy]_vars

(***************************************************************************)
(* Combine and CombineSecure on arbitrary share lists                      *)
(***************************************************************************)
\* hand-made shares: empty, or an x-coordinate followed by payload bytes
Shares ==
    {<< >>} \cup {<<x>> \o y : x \in ListXs, y \in SeqsUpTo(ListBytes, MaxShareLen - 1)}

ShareLists == SeqsUpTo(Shares, MaxShares)

InitCombine ==
    /\ Loaded
    /\ pc = "picked"
    /\ secret = << >> /\ parts = 0 /\ threshold = 0
    /\ api = "none" /\ capi = "none" /\ rndFail = 0 /\ out = NoOut
    /\ input \in ShareLists
    /\ passed = << >> /\ arg = 0 /\ res = NoRes /\ mut = <<0, 0>>
    /\ ext = << >> /\ val = NoVal
    /\ held = {} /\ guess = 0 /\ cnt = <<0, 0>> /\ fld = NoFld

NextCombine ==
    \/ CallCombine
    \/ \E e \in {-1, 0, Len(input), Len(input) + 1} : CallCombineSecure(e)

SpecCombine == InitCombine /\ [][NextCombine]_vars

(***************************************************************************)
(* The secure variants: SplitSecure and CombineSecure on buffers of        *)
(* lengths around the 8-byte chunk of secureOverwriteSlice                 *)
(***************************************************************************)
\* longest secret handed to SplitSecure
MaxSecureLen == 8

\* secrets of 1, 2, MaxSecureLen - 1 and MaxSecureLen bytes
SecureSecrets ==
    {[i \in 1..n |-> (c * i + 83) % 256] : n \in {1, 2, MaxSecureLen - 1, MaxSecureLen},
                                            c \in {0, 37}}

SecureRnd(s, t) ==
    IF Len(s) = 0 \/ t < 2 \/ t > MaxThreshold THEN {<< >>}
    ELSE {[i \in 1..(t - 1) |-> [q \in 1..Len(s) |-> (c * (i + q)) % 256]] : c \in {1, 142}}

InitSecure ==
    /\ Loaded
    /\ pc = "start"
    /\ secret \in SecureSecrets \cup {<< >>}
    /\ parts \in PartsDomain
    /\ threshold \in ThresholdDomain(parts)
    /\ Idle

\* shares, err := SplitSecure(secret, parts, threshold, enforceThreshold)
CallSplitSecure(enforceThreshold, rnd, failAt) ==
    /\ pc = "start"
    /\ passed' = <<secret>>
    /\ LET r == SplitSecure(secret, parts, threshold, enforceThreshold, rnd, failAt)
       IN /\ out' = [f \in {"shares", "err", "coeffs"} |-> r[f]]
          /\ secret' = r.buffer
    /\ api' = "SplitSecure"
    /\ rndFail' = failAt
    /\ pc' = "split"
    /\ UNCHANGED <<capi, parts, threshold, input, arg, res, mut, ext, val, held, guess, cnt, fld,
                   tbl, inv, heap, poly, vld>>

NextSecure ==
    \/ \E rnd \in SecureRnd(secret, threshold) : \E failAt \in FailFor(threshold) :
         CallSplit(rnd, failAt)
    \/ \E e \in BOOLEAN : \E rnd \in SecureRnd(secret, threshold) :
         \E failAt \in FailFor(threshold) : CallSplitSecure(e, rnd, failAt)
    \/ \E sel \in AscendingSelections : Pick(sel)
    \/ \E e \in {0, threshold} : CallCombineSecure(e)

SpecSecure == InitSecure /\ [][NextSecure]_vars

\* the secure variants on the shares of a split and on arbitrary share lists
InitSecureAny == InitSecure \/ InitCombine

NextSecureAny ==
    \/ \E rnd \in SecureRnd(secret, threshold) : \E failAt \in FailFor(threshold) :
         CallSplit(rnd, failAt)
    \/ \E e \in BOOLEAN : \E rnd \in SecureRnd(secret, threshold) :
         \E failAt \in FailFor(threshold) : CallSplitSecure(e, rnd, failAt)
    \/ \E sel \in AscendingSelections : Pick(sel)
    \/ \E e \in {-1, 0, threshold, Len(input), Len(input) + 1} : CallCombineSecure(e)

SpecSecureAny == InitSecureAny /\ [][NextSecureAny]_vars

(***************************************************************************)
(* The scalar field operations on every pair of bytes                      *)
(***************************************************************************)
InitField ==
    /\ Loaded
    /\ pc = "start"
    /\ secret = << >> /\ parts = 0 /\ threshold = 0
    /\ api = "none" /\ capi = "none" /\ rndFail = 0 /\ out = NoOut
    /\ input = << >> /\ passed = << >> /\ arg = 0 /\ res = NoRes /\ mut = <<0, 0>>
    /\ ext = << >> /\ val = NoVal
    /\ held = {} /\ guess = 0 /\ cnt = <<0, 0>>
    /\ fld \in [op : {"none"}, a : Byte, b : Byte, r : {0}]

\* r := op(a, b), or the panic of the call
CallField(op, r) ==
    /\ pc = "start"
    /\ fld' = [fld EXCEPT !.op = op, !.r = r]
    /\ pc' = "done"
    /\ UNCHANGED <<api, capi, rndFail, secret, parts, threshold, out, input, passed, arg, res,
                   mut, ext, val, held, guess, cnt,
                   tbl, inv, heap, poly, vld>>

CallGfMult == CallField("gfMult", gfMult(fld.a, fld.b))

CallGfDiv == CallField("gfDiv", gfDiv(fld.a, fld.b))

CallGf256GfDiv == CallField("gf256.gfDiv", gf256_gfDiv(fld.a, fld.b))

CallGfInv == CallField("gfInv", gfInv(fld.a))

NextField == CallGfMult \/ CallGfDiv \/ CallGf256GfDiv \/ CallGfInv

SpecField == InitField /\ [][NextField]_vars

(***************************************************************************)
(* Combine on share lists with x-coordinates from the whole byte range     *)
(***************************************************************************)
\* x-coordinates: 0, small ones, and ones with high bits set
LagrangeXs == {0, 1, 2, 3, 83, 142, 254, 255}
LagrangeYs == {1, 255}

\* shares of one payload byte
LagrangeShares == {<<x, y>> : x \in LagrangeXs, y \in LagrangeYs}

InitLagrange ==
    /\ Loaded
    /\ pc = "picked"
    /\ secret = << >> /\ parts = 0 /\ threshold = 0
    /\ api = "none" /\ capi = "none" /\ rndFail = 0 /\ out = NoOut
    /\ input \in SeqsUpTo(LagrangeShares, MaxShares)
    /\ passed = << >> /\ arg = 0 /\ res = NoRes /\ mut = <<0, 0>>
    /\ ext = << >> /\ val = NoVal
    /\ held = {} /\ guess = 0 /\ cnt = <<0, 0>> /\ fld = NoFld

NextLagrange == CallCombine

SpecLagrange == InitLagrange /\ [][NextLagrange]_vars

(***************************************************************************)
(* CombineWithIntegrity on received share lists: intact and corrupted      *)
(* shares, with repeated x-coordinates and unequal lengths                 *)
(***************************************************************************)
\* shares before the checksum is appended: two x-coordinates, two lengths
PlainShares == {<<x>> \o y : x \in {1, 2}, y \in {<<83>>, <<83, 0>>}}

\* corruptedShare[j - 1] ^= 0xFF
Corrupt(share, j) == [share EXCEPT ![j] = XorTab[share[j] + 1][255 + 1]]

\* shares of fewer than 6 bytes: empty, one byte, 2 bytes and 5 bytes
ShortShares ==
    {<< >>, <<3>>, <<2, 7>>, <<1, 1, 2, 3, 4>>, <<2, 9, 8, 7, 6>>}

\* what a caller may hand over: a share too short to carry a checksum,
\* intact shares, and shares with the first payload byte or the last
\* checksum byte changed
ReceivedShares ==
    {<<1, 83>>}
        \cup ShortShares
        \cup {addIntegrityCheck(s) : s \in PlainShares}
        \cup {Corrupt(addIntegrityCheck(s), 2) : s \in PlainShares}
        \cup {Corrupt(addIntegrityCheck(s), Len(s) + ChecksumLen) : s \in PlainShares}

InitReceived ==
    /\ Loaded
    /\ pc = "picked"
    /\ secret = << >> /\ parts = 0 /\ threshold = 0
    /\ api = "none" /\ capi = "none" /\ rndFail = 0 /\ out = NoOut
    /\ input \in SeqsUpTo(ReceivedShares, MaxShares)
    /\ passed = << >> /\ arg = 0 /\ res = NoRes /\ mut = <<0, 0>>
    /\ ext = << >> /\ val = NoVal
    /\ held = {} /\ guess = 0 /\ cnt = <<0, 0>> /\ fld = NoFld

NextReceived == CallCombineWithIntegrity

SpecReceived == InitReceived /\ [][NextReceived]_vars

(***************************************************************************)
(* Concurrent invocations of Split and Combine: the package is loaded      *)
(* (init builds the tables), then the goroutines run their calls step by   *)
(* step in any interleaving                                                *)
(***************************************************************************)
\* number of goroutines calling Split or Combine at the same time
MaxInvocations == 2

Invocations == 1..MaxInvocations

\* var tables fieldTables before init() has run: the zero value
ZeroTables == [exp |-> [i \in 0..255 |-> 0], log |-> [i \in 0..255 |-> 0]]

SplitCall(s, p, t, r) ==
    [op |-> "Split", secret |-> s, parts |-> p, threshold |-> t, rnd |-> r, list |-> << >>]

CombineCall(l) ==
    [op |-> "Combine", secret |-> << >>, parts |-> 0, threshold |-> 0, rnd |-> << >>, list |-> l]

\* the calls a goroutine may make, with the bytes rand.Read gives it
ConcurrentCalls ==
    {SplitCall(<<83, 255>>, 2, 2, << <<1, 2>> >>),
     SplitCall(<<255>>, 3, 2, << <<142>> >>),
     SplitCall(<<83>>, 1, 2, << >>),
     CombineCall(<< <<1, 7, 9>>, <<2, 200, 3>> >>),
     CombineCall(<< <<3, 1>>, <<1, 2>>, <<2, 3>> >>),
     CombineCall(<< <<1, 7>>, <<1, 9>> >>)}

NoRet == [val |-> Nil, err |-> NoErr]
NoBuffers == [coeffs |-> << >>, shares |-> << >>, secret |-> << >>]

\* mutant: all invocations work in one package-level set of buffers
SharedBuffers(p) == 1

\* make() gives every invocation memory of its own: the buffers of
\* invocation p are heap[p]
OwnBuffers(p) == p

\* the parameter checks of Split at lines 24-32
SplitParamError(s, p, t) ==
    IF Len(s) = 0 THEN ErrEmptySecret
    ELSE IF p < 2 \/ p >= PartsLimit THEN ErrInvalidParts
    ELSE IF t < 2 \/ t > p THEN ErrInvalidThreshold
    ELSE NoErr

InitConcurrent ==
    /\ pc = "load"
    /\ secret = << >> /\ parts = 0 /\ threshold = 0
    /\ Idle
    /\ tbl = ZeroTables
    /\ inv \in [Invocations -> [call : ConcurrentCalls, pos : {"call"}, k : {0}, ret : {NoRet}]]
    /\ heap = [p \in Invocations |-> NoBuffers]
    /\ poly = NoPoly /\ vld = NoVld

\* the variables of the sequential callers
seqVars == <<api, capi, rndFail, secret, parts, threshold, out, input, passed, arg, res, mut,
             ext, val, held, guess, cnt, fld, poly, vld>>

\* func init() { buildFieldTables() }: run by the runtime before main starts
PackageInit ==
    /\ pc = "load"
    /\ tbl' = buildFieldTables
    /\ pc' = "main"
    /\ UNCHANGED <<seqVars, inv, heap>>

\* invocation p moves to position pos with loop counter k
Goto(p, pos, k) == inv' = [inv EXCEPT ![p].pos = pos, ![p].k = k]

\* invocation p returns (v, e)
Return(p, v, e) ==
    inv' = [inv EXCEPT ![p].pos = "ret", ![p].ret = [val |-> v, err |-> e]]

\* Split lines 24-39: the checks, then shares and coeffs are allocated and
\* the secret is copied into coeffs[0]
SplitEnter(p) ==
    LET c == inv[p].call
        err == SplitParamError(c.secret, c.parts, c.threshold)
    IN /\ pc = "main" /\ inv[p].pos = "call" /\ c.op = "Split"
       /\ IF err # NoErr
          THEN Return(p, Nil, err) /\ UNCHANGED heap
          ELSE /\ heap' = [heap EXCEPT ![OwnBuffers(p)].coeffs =
                                          <<CopyInto(MakeBytes(Len(c.secret)), c.secret)>>,
                                       ![OwnBuffers(p)].shares = << >>]
               /\ Goto(p, "rand", 1)
       /\ UNCHANGED <<pc, seqVars, tbl>>

\* one pass of the loop at lines 41-46: coeffs[k] is allocated and filled
SplitRand(p) ==
    LET c == inv[p].call
        k == inv[p].k
    IN /\ pc = "main" /\ inv[p].pos = "rand"
       /\ heap' = [heap EXCEPT ![OwnBuffers(p)].coeffs = Append(@, c.rnd[k])]
       /\ IF k + 1 < c.threshold THEN Goto(p, "rand", k + 1) ELSE Goto(p, "eval", 0)
       /\ UNCHANGED <<pc, seqVars, tbl>>

\* one pass of the loop at lines 48-54: share k is allocated and evaluated
SplitEval(p) ==
    LET c == inv[p].call
        k == inv[p].k
    IN /\ pc = "main" /\ inv[p].pos = "eval"
       /\ heap' = [heap EXCEPT ![OwnBuffers(p)].shares =
                                  Append(@, SplitShare(c.secret, heap[OwnBuffers(p)].coeffs, k))]
       /\ IF k + 1 < c.parts THEN Goto(p, "eval", k + 1) ELSE Goto(p, "zero", 0)
       /\ UNCHANGED <<pc, seqVars, tbl>>

\* the loop at lines 56-60
SplitZero(p) ==
    /\ pc = "main" /\ inv[p].pos = "zero"
    /\ heap' = [heap EXCEPT ![OwnBuffers(p)].coeffs =
                               [i \in 1..Len(@) |-> secureZeroBytes(@[i])]]
    /\ Goto(p, "return", 0)
    /\ UNCHANGED <<pc, seqVars, tbl>>

\* return shares, nil
SplitReturn(p) ==
    /\ pc = "main" /\ inv[p].pos = "return" /\ inv[p].call.op = "Split"
    /\ Return(p, heap[OwnBuffers(p)].shares, NoErr)
    /\ UNCHANGED <<pc, seqVars, tbl, heap>>

\* Combine lines 66-94: the checks, then the secret buffer is allocated
CombineEnter(p) ==
    LET c == inv[p].call
        err == Combine(c.list).err
    IN /\ pc = "main" /\ inv[p].pos = "call" /\ c.op = "Combine"
       /\ IF err # NoErr
          THEN Return(p, Nil, err) /\ UNCHANGED heap
          ELSE /\ heap' = [heap EXCEPT ![OwnBuffers(p)].secret =
                                          MakeBytes(Len(c.list[1]) - ShareOverhead)]
               /\ Goto(p, "interp", 0)
       /\ UNCHANGED <<pc, seqVars, tbl>>

\* one pass of the loop at lines 96-105: secret[k] is interpolated
CombineInterp(p) ==
    LET c == inv[p].call
        k == inv[p].k
        xCoords == [i \in 1..Len(c.list) |-> c.list[i][1]]
        yCoords == [i \in 1..Len(c.list) |-> c.list[i][k + 2]]
    IN /\ pc = "main" /\ inv[p].pos = "interp"
       /\ heap' = [heap EXCEPT ![OwnBuffers(p)].secret =
                                  [@ EXCEPT ![k + 1] = lagrangeInterpolate(xCoords, yCoords, 0)]]
       /\ IF k + 1 < Len(heap[OwnBuffers(p)].secret)
          THEN Goto(p, "interp", k + 1) ELSE Goto(p, "return", 0)
       /\ UNCHANGED <<pc, seqVars, tbl>>

\* return secret, nil
CombineReturn(p) ==
    /\ pc = "main" /\ inv[p].pos = "return" /\ inv[p].call.op = "Combine"
    /\ Return(p, heap[OwnBuffers(p)].secret, NoErr)
    /\ UNCHANGED <<pc, seqVars, tbl, heap>>

NextConcurrent ==
    \/ PackageInit
    \/ \E p \in Invocations : SplitEnter(p)
    \/ \E p \in Invocations : SplitRand(p)
    \/ \E p \in Invocations : SplitEval(p)
    \/ \E p \in Invocations : SplitZero(p)
    \/ \E p \in Invocations : SplitReturn(p)
    \/ \E p \in Invocations : CombineEnter(p)
    \/ \E p \in Invocations : CombineInterp(p)
    \/ \E p \in Invocations : CombineReturn(p)

SpecConcurrent == InitConcurrent /\ [][NextConcurrent]_vars

(***************************************************************************)
(* The polynomial evaluators on coefficient buffers of several lengths     *)
(***************************************************************************)
\* longest coefficient buffer: one byte more than a 64-bit word
MaxPolyLen == 9
\* largest number of coefficient buffers
MaxCoeffs == 3

PolyLens == {1, ChunkSize - 1, ChunkSize, MaxPolyLen}
PolyXs == {0, 1, 2, 83, 255}

\* buffers of length n: byte i is c * i + 10 (10, 20, 30 in the test)
PolyBufs(n) == {[i \in 1..n |-> (c * i + 10) % 256] : c \in {0, 10, 37}}

InitPoly ==
    /\ pc = "start"
    /\ secret = << >> /\ parts = 0 /\ threshold = 0
    /\ Idle
    /\ tbl = tables /\ inv = << >> /\ heap = << >> /\ vld = NoVld
    /\ \E n \in PolyLens :
         poly \in [op : {"none"},
                   dst : {[i \in 1..n |-> 0], [i \in 1..n |-> 255]},
                   coefficients : UNION {[1..k -> PolyBufs(n)] : k \in 0..MaxCoeffs},
                   x : PolyXs, mem : {<< >>}, r : {0}]

\* gfPolyEvalSlice(dst, coefficients, x)
CallGfPolyEvalSlice ==
    /\ pc = "start"
    /\ poly' = [poly EXCEPT !.op = "gfPolyEvalSlice",
                            !.mem = gfPolyEvalSliceAt(poly.dst, poly.coefficients, poly.x)]
    /\ pc' = "done"
    /\ UNCHANGED <<api, capi, rndFail, secret, parts, threshold, out, input, passed, arg, res,
                   mut, ext, val, held, guess, cnt, fld, tbl, inv, heap, vld>>

\* byte p of every coefficient buffer, index 0 first
Column(coefficients, p) == [i \in 1..Len(coefficients) |-> coefficients[i][p]]

\* result := gfPolyEval(singleCoeffs, x) for the coefficients of position 0
CallGfPolyEval ==
    /\ pc = "start"
    /\ poly' = [poly EXCEPT !.op = "gfPolyEval",
                            !.r = gfPolyEval(Column(poly.coefficients, 1), poly.x)]
    /\ pc' = "done"
    /\ UNCHANGED <<api, capi, rndFail, secret, parts, threshold, out, input, passed, arg, res,
                   mut, ext, val, held, guess, cnt, fld, tbl, inv, heap, vld>>

NextPoly == CallGfPolyEvalSlice \/ CallGfPolyEval

SpecPoly == InitPoly /\ [][NextPoly]_vars

(***************************************************************************)
(* The stand-alone validators on parameters and share lists, nil ones      *)
(* included                                                                *)
(***************************************************************************)
ValidateSecrets == {<< >>, <<83>>}

\* shares as in SpecCombine, and the nil share
NilableShares == Shares \cup {Nil}

InitValidate ==
    /\ api = "none" /\ capi = "none" /\ rndFail = 0 /\ out = NoOut
    /\ passed = << >> /\ arg = 0 /\ res = NoRes /\ mut = <<0, 0>>
    /\ ext = << >> /\ val = NoVal
    /\ held = {} /\ guess = 0 /\ cnt = <<0, 0>> /\ fld = NoFld
    /\ tbl = tables /\ inv = << >> /\ heap = << >> /\ poly = NoPoly
    /\ \/ /\ pc = "start"
          /\ secret \in ValidateSecrets
          /\ parts \in PartsDomain
          /\ threshold \in ThresholdDomain(parts)
          /\ input = << >>
          /\ vld = NoVld
       \/ /\ pc = "picked"
          /\ secret = << >> /\ parts = 0 /\ threshold = 0
          /\ \/ input = << >> /\ vld = [NoVld EXCEPT !.nil = TRUE]
             \/ input \in SeqsUpTo(NilableShares, MaxShares) /\ vld = NoVld

\* err := validateSplitParams(secret, parts, threshold)
CallValidateSplitParams ==
    /\ pc = "start"
    /\ vld' = [vld EXCEPT !.op = "validateSplitParams",
                          !.err = validateSplitParams(secret, parts, threshold)]
    /\ pc' = "done"
    /\ UNCHANGED <<api, capi, rndFail, secret, parts, threshold, out, input, passed, arg, res,
                   mut, ext, val, held, guess, cnt, fld, tbl, inv, heap, poly>>

\* err := validateCombineParams(tt.shares)
CallValidateCombineParams ==
    /\ pc = "picked"
    /\ passed' = input
    /\ vld' = [vld EXCEPT !.op = "validateCombineParams",
                          !.err = validateCombineParams(input, vld.nil)]
    /\ pc' = "done"
    /\ UNCHANGED <<api, capi, rndFail, secret, parts, threshold, out, input, arg, res,
                   mut, ext, val, held, guess, cnt, fld, tbl, inv, heap, poly>>

NextValidate == CallValidateSplitParams \/ CallValidateCombineParams

SpecValidate == InitValidate /\ [][NextValidate]_vars

(***************************************************************************)
(* Properties                                                              *)
(***************************************************************************)
\* the Split call has returned
SplitReturned == pc # "start" /\ api = "Split"

\* the Combine call has returned
CombineReturned == pc = "done" /\ capi = "Combine"

\* C1: Combine applied to the first `threshold` shares returned by a
\* successful Split returns no error and the secret that was split,
\* whatever the random coefficients were.
C1_RoundTripFirstThreshold ==
    (CombineReturned /\ api = "Split" /\ passed = SubSeq(out.shares, 1, threshold))
        => (res.err = NoErr /\ res.secret = secret)

C1_Witness ==
    /\ CombineReturned /\ api = "Split"
    /\ threshold = 3 /\ parts = 3
    /\ passed = SubSeq(out.shares, 1, threshold)
    /\ secret = <<83, 255>>
    /\ res.secret = secret
    /\ passed[2][2] # 83

\* C2: for the shares of one Split call, Combine returns the same secret
\* (the one that was split) for every selection of m shares, threshold <= m
\* <= parts, whichever shares are selected and in whatever order.
C2_AnySelectionAnyOrder ==
    (CombineReturned /\ api = "Split" /\ Len(passed) >= threshold)
        => (res.err = NoErr /\ res.secret = secret)

\* three shares of a threshold-2 split, passed out of order
C2_Witness ==
    /\ CombineReturned /\ api = "Split"
    /\ threshold = 2 /\ Len(passed) = 3
    /\ passed[1][1] = 3 /\ passed[2][1] = 1 /\ passed[3][1] = 2
    /\ secret = <<255, 83>>
    /\ res.secret = secret

\* C5: a successful Split returns exactly `parts` shares of length
\* len(secret) + 1, the share at (0-based) index i starting with the byte
\* i + 1: the x-coordinates are 1..parts, distinct and never 0, without
\* wrapping for any accepted value of parts.
C5_ShareShape ==
    (SplitReturned /\ out.err = NoErr) =>
        /\ Len(out.shares) = parts
        /\ \A i \in 1..parts :
             /\ Len(out.shares[i]) = Len(secret) + 1
             /\ out.shares[i][1] = i
             /\ out.shares[i][1] \in 1..255
        /\ Cardinality({out.shares[i][1] : i \in 1..parts}) = parts

\* the largest accepted number of parts
C5_Witness ==
    /\ SplitReturned /\ out.err = NoErr
    /\ parts = PartsLimit - 1
    /\ out.shares[parts][1] = 255

\* the parameters Split must reject
BadSplitParams ==
    Len(secret) = 0 \/ parts < 2 \/ parts > 255 \/ threshold < 2 \/ threshold > parts

\* C6: Split returns an error and a nil share list exactly when the secret
\* is empty, or parts is outside 2..255, or threshold is outside 2..parts;
\* it succeeds on every other input when rand.Read does not fail; an empty
\* secret yields ErrEmptySecret whatever parts and threshold are.
C6_SplitRejectsExactly ==
    SplitReturned =>
        /\ BadSplitParams => (out.err # NoErr /\ out.shares = Nil)
        /\ (~BadSplitParams /\ rndFail = 0) => (out.err = NoErr /\ out.shares # Nil)
        /\ (~BadSplitParams /\ rndFail # 0) => out.err = ErrRandom
        /\ Len(secret) = 0 => out.err = ErrEmptySecret

\* an empty secret with otherwise bad parameters
C6_Witness ==
    /\ SplitReturned
    /\ Len(secret) = 0 /\ parts = PartsLimit /\ threshold = 0
    /\ out.err = ErrEmptySecret /\ out.shares = Nil

\* two shares of the list have the same byte 0
SameByte0(list) ==
    \E i, j \in 1..Len(list) :
        i # j /\ Len(list[i]) >= 1 /\ Len(list[j]) >= 1 /\ list[i][1] = list[j][1]

\* every share is as long as the first
SameLengths(list) == \A i \in 1..Len(list) : Len(list[i]) = Len(list[1])

\* an error, a nil secret and no call of lagrangeInterpolate
Rejected == res.err # NoErr /\ res.secret = Nil /\ res.calls = 0

\* C7: Combine rejects, with a nil secret and before any interpolation
\* step runs: a list of fewer than 2 shares (ErrTooFewParts), a first share
\* shorter than 2 bytes (ErrTooShort), any share whose length differs from
\* the first (ErrDifferentLengths), and any two shares with the same byte 0
\* whatever their positions in the list.
C7_CombineRejects ==
    CombineReturned =>
        /\ Len(passed) < 2 => (Rejected /\ res.err = ErrTooFewParts)
        /\ (Len(passed) >= 2 /\ Len(passed[1]) < 2) => (Rejected /\ res.err = ErrTooShort)
        /\ (Len(passed) >= 2 /\ Len(passed[1]) >= 2 /\ ~SameLengths(passed))
               => (Rejected /\ res.err = ErrDifferentLengths)
        /\ SameByte0(passed) => Rejected
        /\ (Len(passed) >= 2 /\ Len(passed[1]) >= 2 /\ SameLengths(passed) /\ SameByte0(passed))
               => res.err = ErrDuplicatePart

\* the first and the last of three shares have the same x-coordinate
C7_Witness ==
    /\ CombineReturned /\ api = "none"
    /\ Len(passed) = 3 /\ SameLengths(passed) /\ Len(passed[1]) = 2
    /\ passed[1][1] = passed[3][1] /\ passed[2][1] # passed[1][1]
    /\ res.err = ErrDuplicatePart /\ res.secret = Nil

CombineSecureReturned == pc = "done" /\ capi = "CombineSecure"

\* C10: CombineSecure returns ErrInsufficientShares and a nil secret
\* whenever expectedThreshold > 0 and len(shares) < expectedThreshold, before
\* (and instead of) any structural error; with expectedThreshold <= 0 it
\* accepts and rejects exactly what Combine does.
C10_ThresholdCheckFirst ==
    CombineSecureReturned =>
        /\ (arg > 0 /\ Len(passed) < arg)
               => (res.err = ErrInsufficientShares /\ res.secret = Nil)
        /\ arg <= 0 => (res.err = Combine(passed).err /\ res.secret = Combine(passed).secret)

\* a single, too short share and a declared threshold of 2
C10_Witness ==
    /\ CombineSecureReturned
    /\ Len(passed) = 1 /\ Len(passed[1]) = 1 /\ arg = 2
    /\ res.err = ErrInsufficientShares

CombineWithIntegrityReturned == pc = "done" /\ capi = "CombineWithIntegrity"

\* C4: mutating a single byte anywhere in an integrity-checked share (the
\* x-coordinate byte, a payload byte or a checksum byte) makes
\* CombineWithIntegrity on a share set containing it fail with
\* ErrIntegrityCheckFailed; no secret is returned.
C4_AnyMutationDetected ==
    (CombineWithIntegrityReturned /\ mut # <<0, 0>> /\ Len(passed) >= 2)
        => (res.err = ErrIntegrityCheckFailed /\ res.secret = Nil)

\* C8: for every valid (secret, parts, threshold), SplitWithIntegrity returns
\* `parts` shares of length len(secret) + 5, and CombineWithIntegrity applied
\* to any `threshold` of those shares, unmodified, returns the secret without
\* error.
C8_IntegrityRoundTrip ==
    /\ (pc # "start" /\ api = "SplitWithIntegrity" /\ ~BadSplitParams /\ rndFail = 0) =>
          /\ out.err = NoErr
          /\ Len(out.shares) = parts
          /\ \A i \in 1..parts :
               Len(out.shares[i]) = Len(secret) + ShareOverhead + ChecksumLen
    /\ (CombineWithIntegrityReturned /\ mut = <<0, 0>> /\ Len(passed) = threshold)
          => (res.err = NoErr /\ res.secret = secret)

C8_Witness ==
    /\ CombineWithIntegrityReturned /\ mut = <<0, 0>>
    /\ parts = 3 /\ threshold = 2 /\ Len(passed) = 2
    /\ passed[1][1] = 2 /\ passed[2][1] = 3
    /\ Len(passed[1]) = 7
    /\ secret = <<83, 255>>
    /\ res.secret = secret /\ res.err = NoErr

\* C9: for every share s of length >= 2, addIntegrityCheck(s) returns a new
\* buffer of length len(s) + 4 whose first len(s) bytes equal s and whose
\* last 4 bytes are the CRC-32 of s[1:], least significant byte first, and
\* leaves s as it was; validateIntegrityCheck of that buffer returns no error
\* and a buffer equal to s.
C9_AddThenValidate ==
    (pc \in {"extended", "validated"} /\ Len(passed[1]) >= 2) =>
        LET s == passed[1]
            n == Len(s)
            crc == calculateCRC32(SubSeq(s, 2, n))
        IN /\ Len(ext) = n + 4
           /\ SubSeq(ext, 1, n) = s
           /\ ext[n + 1] + 256 * ext[n + 2] = crc.lo
           /\ ext[n + 3] + 256 * ext[n + 4] = crc.hi
           /\ \A k \in (n + 1)..(n + 4) : ext[k] \in Byte
           /\ out.shares[arg] = s
           /\ pc = "validated" => (val.err = NoErr /\ val.share = s)

\* a share whose checksum has four different bytes
C9_Witness ==
    /\ pc = "validated"
    /\ Len(passed[1]) = 3
    /\ Len(ext) = 7
    /\ Cardinality({ext[4], ext[5], ext[6], ext[7]}) = 4
    /\ val.share = passed[1] /\ val.err = NoErr

\* C3: fewer than `threshold` shares reveal nothing about the secret: for
\* every set of threshold - 1 shares and every byte position, the bytes seen
\* are produced by exactly as many choices of the random coefficients when
\* the secret byte is any candidate value as when it is the true value.
C3_SharesRevealNothing ==
    pc = "guessed" => (cnt[1] >= 1 /\ cnt[2] = cnt[1])

\* a wrong candidate for the second byte of the secret
C3_Witness ==
    /\ pc = "guessed"
    /\ secret = <<255, 1>> /\ arg = 2 /\ guess = 83
    /\ held = {2}
    /\ cnt[2] >= 1

\* C11: when CombineSecure returns successfully, every byte of every input
\* share buffer (the x-coordinate byte included) is 0, whatever the length
\* of the shares, and the returned secret is what Combine returns on the
\* contents the buffers had before the call.
C11_SharesZeroedAfterCombineSecure ==
    (CombineSecureReturned /\ res.err = NoErr) =>
        /\ Len(input) = Len(passed)
        /\ \A i \in 1..Len(input) :
              /\ Len(input[i]) = Len(passed[i])
              /\ \A j \in 1..Len(input[i]) : input[i][j] = 0
        /\ res.secret # Nil
        /\ res.secret = Combine(passed).secret

\* shares of one full chunk and one more byte
C11_Witness ==
    /\ CombineSecureReturned /\ res.err = NoErr
    /\ Len(passed) = 2
    /\ Len(passed[1]) = ChunkSize + 1
    /\ passed[1][ChunkSize + 1] # 0
    /\ input[1][ChunkSize + 1] = 0 /\ input[2][1] = 0
    /\ res.secret = secret

\* the SplitSecure call has returned successfully
SplitSecureSucceeded == pc = "split" /\ api = "SplitSecure" /\ out.err = NoErr

\* C12: when SplitSecure returns successfully, every byte of the caller's
\* secret buffer is 0, and Combine of any `threshold` of the returned shares
\* is the contents the secret buffer had before the call.
C12_SecretZeroedAfterSplitSecure ==
    SplitSecureSucceeded =>
        /\ Len(secret) = Len(passed[1])
        /\ \A i \in 1..Len(secret) : secret[i] = 0
        /\ \A sel \in Selections :
              Len(sel) = threshold =>
                 LET r == Combine([i \in 1..Len(sel) |-> out.shares[sel[i]]])
                 IN r.err = NoErr /\ r.secret = passed[1]

\* a secret of one full chunk, split three ways
C12_Witness ==
    /\ SplitSecureSucceeded
    /\ parts = 3 /\ threshold = 3
    /\ Len(passed[1]) = ChunkSize /\ passed[1][1] # passed[1][2]
    /\ secret = MakeBytes(ChunkSize)

\* C13: when Split rejects an out-of-range parts or threshold value, the
\* error it returns is a ValidationError that carries the name of the
\* offending field and the offending value (Field "parts" and Value 1 for
\* Split(secret, 1, 1)).
C13_SplitErrorCarriesField ==
    (SplitReturned /\ Len(secret) > 0 /\ BadSplitParams) =>
        LET v == ErrorValue(out.err)
            partsBad == parts < 2 \/ parts > 255
        IN /\ v.type = "*ValidationError"
           /\ v.Field = (IF partsBad THEN "parts" ELSE "threshold")
           /\ v.Value = (IF partsBad THEN parts ELSE threshold)

\* bit k of n
Bit(n, k) == (n \div (2 ^ k)) % 2

\* the product of the polynomials a and b over GF(2), from bit k of b on
RECURSIVE ClMul(_, _, _)
ClMul(a, b, k) ==
    IF k > 7 THEN 0
    ELSE Xor16(IF Bit(b, k) = 1 THEN a * (2 ^ k) ELSE 0, ClMul(a, b, k + 1))

\* v reduced modulo the polynomial p of degree 8, from bit k of v down
RECURSIVE PolyMod(_, _, _)
PolyMod(v, p, k) ==
    IF k < 8 THEN v
    ELSE PolyMod(IF Bit(v, k) = 1 THEN Xor16(v, p * (2 ^ (k - 8))) ELSE v, p, k - 1)

\* the carry-less product of a and b reduced modulo p
FieldProduct(a, b, p) == PolyMod(ClMul(a, b, 0), p, 14)

GfMultReturned == pc = "done" /\ fld.op = "gfMult"

\* what the tables compute: the carry-less product reduced modulo
\* x^8+x^4+x^3+x^2+1 (0x11D), the polynomial buildFieldTables reduces by
GfMultIsProductModuloReducePoly ==
    GfMultReturned => fld.r = FieldProduct(fld.a, fld.b, ReducePoly)

\* C14: field multiplication is multiplication in GF(2^8) under the
\* polynomial x^8+x^4+x^3+x+1 (0x11B): for all bytes a and b, gfMult(a, b)
\* is the carry-less product of a and b reduced modulo that polynomial.
C14_ProductModuloAesPolynomial ==
    GfMultReturned => fld.r = FieldProduct(fld.a, fld.b, 283)

\* C19: field division by zero signals a fatal error for every dividend:
\* for all bytes a, a = 0 included, gfDiv(a, 0) panics and returns no value
\* (in field.go and in gf256.go).
C19_DivisionByZeroPanics ==
    (pc = "done" /\ fld.op \in {"gfDiv", "gf256.gfDiv"} /\ fld.b = 0) => fld.r = GfPanic

\* what holds of gfDiv of field.go alone
FieldGoDivisionByZeroPanics ==
    (pc = "done" /\ fld.op = "gfDiv" /\ fld.b = 0) => fld.r = GfPanic

\* C20: division and inverse undo multiplication: for all bytes a and all
\* nonzero bytes b, gfDiv(gfMult(a, b), b) = a; for all nonzero a, a = 1
\* included, gfMult(a, gfInv(a)) = 1.
C20_DivisionAndInverseUndoMultiplication ==
    /\ (GfMultReturned /\ fld.b # 0) => gfDiv(fld.r, fld.b) = fld.a
    /\ (pc = "done" /\ fld.op = "gfInv" /\ fld.a # 0) =>
          (fld.r \in Byte /\ gfMult(fld.a, fld.r) = 1)

\* the inverse of 1, whose logarithm is 0, is read from exp[255]
C20_Witness ==
    /\ pc = "done" /\ fld.op = "gfInv"
    /\ fld.a = 1 /\ fld.r = 1
    /\ tables.log[1] = 0 /\ tables.exp[255] = 1

\* Split has returned after allocating coefficient buffers
CoefficientsAllocated == SplitReturned /\ Len(out.coeffs) > 0

\* every byte of every allocated coefficient buffer is 0
CoefficientsAllZero ==
    \A i \in 1..Len(out.coeffs) : \A p \in 1..Len(out.coeffs[i]) : out.coeffs[i][p] = 0

\* C16: every coefficient buffer Split allocated, the copy of the secret at
\* position 0 included, holds only zero bytes at every exit of Split after
\* the allocation: the successful return and the error return taken when
\* rand.Read fails.
C16_CoefficientsZeroAtEveryExit == CoefficientsAllocated => CoefficientsAllZero

\* what holds: the coefficient buffers are zeroed on the successful return
CoefficientsZeroOnSuccess ==
    (CoefficientsAllocated /\ out.err = NoErr) =>
        (Len(out.coeffs) = threshold /\ CoefficientsAllZero)

\* rand.Read failed after a nonzero secret was copied into coeffs[0]
RandFailureAfterCopy ==
    /\ CoefficientsAllocated /\ out.err = ErrRandom /\ rndFail >= 1
    /\ out.coeffs[1] = secret /\ \E p \in 1..Len(secret) : secret[p] # 0

\* the x-coordinates Combine extracts from the shares it was given
PassedXCoords == [i \in 1..Len(passed) |-> passed[i][1]]

\* C17: for every share list that passes the validation of Combine (at
\* least 2 shares, each of at least 2 bytes, equal lengths, pairwise
\* distinct x-coordinates) every Lagrange denominator is nonzero: gfDiv is
\* never called with a zero divisor, the branch that skips a term is never
\* taken, and no panic occurs.
C17_DenominatorsNonzero ==
    (CombineReturned /\ res.err = NoErr) =>
        /\ \A i \in 1..Len(passed) :
              LET nd == basisLoop(PassedXCoords, 0, i, 1, 1, 1)
              IN nd[2] \in 1..255 /\ gfDiv(nd[1], nd[2]) # GfPanic
        /\ SkippedTerms(PassedXCoords, 0) = {}
        /\ \A p \in 1..Len(res.secret) : res.secret[p] \in Byte

\* three shares with x-coordinates 254, 255 and 1 were combined: each
\* denominator is a product of two nonzero differences
C17_Witness ==
    /\ CombineReturned /\ res.err = NoErr /\ res.calls = 1
    /\ PassedXCoords = <<254, 255, 1>>
    /\ basisLoop(PassedXCoords, 0, 2, 1, 1, 1)[2] = gfMult(1, 254)

\* the field has no zero divisors: a product of nonzero bytes is nonzero
FieldHasNoZeroDivisors ==
    (GfMultReturned /\ fld.a # 0 /\ fld.b # 0) => fld.r \in 1..255

\* share i of the list handed over fails its checksum
FailsChecksum(i) == validateIntegrityCheck(passed[i]).err = ErrIntegrityCheckFailed

\* C18: CombineWithIntegrity validates the checksum of every share before
\* it invokes Combine: if any share of a list of at least 2 shares fails
\* its checksum, Combine is never invoked, the secret is nil and the error
\* wraps ErrIntegrityCheckFailed, not a structural error, even when the
\* list also holds duplicate x-coordinates or shares of unequal lengths.
C18_ChecksumsBeforeCombine ==
    (CombineWithIntegrityReturned /\ Len(passed) >= 2
         /\ \E i \in 1..Len(passed) : FailsChecksum(i))
        => (res.secret = Nil /\ res.calls = 0 /\ res.err = ErrIntegrityCheckFailed)

\* the first two shares are intact and have the same x-coordinate, the
\* third has another length and fails its checksum
C18_Witness ==
    /\ CombineWithIntegrityReturned /\ Len(passed) = 3
    /\ ~FailsChecksum(1) /\ ~FailsChecksum(2) /\ FailsChecksum(3)
    /\ Len(passed[1]) >= MinCheckedLen /\ Len(passed[2]) = Len(passed[1])
    /\ passed[1][1] = passed[2][1]
    /\ Len(passed[3]) # Len(passed[1])
    /\ res.err = ErrIntegrityCheckFailed /\ res.secret = Nil

\* what a call returns when it runs alone with the same random bytes
Alone(c) ==
    IF c.op = "Split"
    THEN LET r == Split(c.secret, c.parts, c.threshold, c.rnd, 0)
         IN [val |-> r.shares, err |-> r.err]
    ELSE LET r == Combine(c.list)
         IN [val |-> r.secret, err |-> r.err]

\* no invocation has started before init() has built the tables, and
\* afterwards the tables hold what buildFieldTables wrote
TablesBuiltBeforeUse ==
    /\ pc = "load" => \A p \in DOMAIN inv : inv[p].pos = "call"
    /\ pc = "main" => tbl = tables

\* every invocation that has returned returned what it returns alone
ReturnsAsAlone ==
    \A p \in DOMAIN inv : inv[p].pos = "ret" => inv[p].ret = Alone(inv[p].call)

\* C15: the field tables are written only during the one-time
\* initialisation, which is over before any Split or Combine starts; under
\* every interleaving of concurrent Split and Combine invocations that own
\* their buffers, no invocation writes the tables or the buffers of another
\* invocation, and each returns what it returns when run alone with the
\* same random bytes.
C15_ConcurrentInvocationsIndependent ==
    /\ []TablesBuiltBeforeUse
    /\ [][pc = "main" => tbl' = tbl]_vars
    /\ [][\A q \in DOMAIN inv : inv'[q] = inv[q] => heap'[q] = heap[q]]_vars
    /\ []ReturnsAsAlone

\* a Split has made its first share and a Combine of another goroutine has
\* interpolated its first byte: both are under way at once
C15_Witness ==
    /\ pc = "main" /\ tbl = tables
    /\ inv[1].call.op = "Split" /\ inv[1].pos = "eval" /\ inv[1].k = 1
    /\ inv[2].call.op = "Combine" /\ inv[2].pos = "interp" /\ inv[2].k = 1
    /\ Len(heap[1].shares) = 1 /\ Len(heap[2].secret) = 2

\* C21: field multiplication is commutative, has identity 1 and absorbing
\* element 0: for all bytes a and b, gfMult(a, b) = gfMult(b, a),
\* gfMult(a, 1) = a and gfMult(a, 0) = 0.
C21_MultCommutativeIdentityZero ==
    GfMultReturned =>
        /\ fld.r = gfMult(fld.b, fld.a)
        /\ fld.b = 1 => fld.r = fld.a
        /\ fld.b = 0 => fld.r = 0

\* 123 * 45, the operands of the test, and its mirror image agree on a
\* nonzero product
C21_Witness ==
    /\ GfMultReturned /\ fld.a = 123 /\ fld.b = 45
    /\ fld.r \in 1..255 /\ fld.r = gfMult(45, 123)
    /\ gfMult(123, 1) = 123 /\ gfMult(123, 0) = 0

\* init() has run: the tables are constructed
TablesConstructed == pc = "main" /\ tbl # ZeroTables

\* C22: after table construction, for every nonzero byte b, log[b] is in
\* 0..254 and exp[log[b]] = b (the 255 powers of the generator 2 cover
\* every nonzero byte exactly once); exp[0] = 1; log[1] = 0; log[0] = 255,
\* which is not the logarithm of any nonzero byte.
C22_TablesAreInverse ==
    TablesConstructed =>
        /\ \A b \in 1..255 : tbl.log[b] \in 0..254 /\ tbl.exp[tbl.log[b]] = b
        /\ {tbl.exp[i] : i \in 0..254} = 1..255
        /\ tbl.exp[0] = 1
        /\ tbl.log[1] = 0
        /\ tbl.log[0] = 255
        /\ \A b \in 1..255 : tbl.log[b] # tbl.log[0]

\* the tables were written by init(): 2^1 = 2, 2^8 = 0x1D after the first
\* reduction, and the last power 2^254 = 0x8E has logarithm 254
C22_Witness ==
    /\ TablesConstructed
    /\ tbl.exp[1] = 2 /\ tbl.log[2] = 1
    /\ tbl.exp[8] = 29 /\ tbl.log[29] = 8
    /\ tbl.exp[254] = 142 /\ tbl.log[142] = 254
    /\ tbl.exp[255] = 1

\* x to the power n in the field
RECURSIVE GfPow(_, _)
GfPow(x, n) == IF n = 0 THEN 1 ELSE gfMult(x, GfPow(x, n - 1))

\* the field sum of c[i] * x^(i-1) over the first n coefficients
RECURSIVE PolySum(_, _, _)
PolySum(c, x, n) ==
    IF n = 0 THEN 0 ELSE gfAdd(PolySum(c, x, n - 1), gfMult(c[n], GfPow(x, n - 1)))

GfPolyEvalSliceReturned == pc = "done" /\ poly.op = "gfPolyEvalSlice"

\* C23: for every list of k >= 1 equal-length coefficient buffers of any
\* length (a multiple of 8 or not) and every point x, gfPolyEvalSlice
\* writes to dst[p] the value gfPolyEval of the coefficients at position p,
\* which is the field sum of c_i[p] * x^i with index 0 the constant term;
\* the in-place multiply and XOR on dst give what out-of-place ones give,
\* the coefficient buffers are left unmodified, and gfPolyEval of an empty
\* coefficient list is 0.
C23_PolyEvalSliceIsHorner ==
    /\ (GfPolyEvalSliceReturned /\ Len(poly.coefficients) >= 1) =>
          /\ Len(poly.mem[1]) = Len(poly.dst)
          /\ \A p \in 1..Len(poly.dst) :
                /\ poly.mem[1][p] = gfPolyEval(Column(poly.coefficients, p), poly.x)
                /\ poly.mem[1][p] = PolySum(Column(poly.coefficients, p), poly.x,
                                            Len(poly.coefficients))
          /\ poly.mem[1] = gfPolyEvalSlice(poly.dst, poly.coefficients, poly.x)
          /\ \A i \in 1..Len(poly.coefficients) : poly.mem[i + 1] = poly.coefficients[i]
    /\ (pc = "done" /\ poly.op = "gfPolyEval" /\ Len(poly.coefficients) = 0) => poly.r = 0

\* three coefficient buffers of 9 bytes (a word and one byte more) were
\* evaluated at x = 2 into a dst that held 255 everywhere
C23_Witness ==
    /\ GfPolyEvalSliceReturned
    /\ Len(poly.coefficients) = MaxCoeffs /\ Len(poly.dst) = ChunkSize + 1
    /\ poly.x = 2 /\ poly.dst[1] = 255
    /\ poly.coefficients[1] # poly.coefficients[2]
    /\ poly.mem[1][ChunkSize + 1] # 255

\* the list handed to Combine passes its checks on count, lengths and
\* duplicates
StructurallyValid ==
    /\ Len(passed) >= 2 /\ Len(passed[1]) >= 2
    /\ SameLengths(passed) /\ ~SameByte0(passed)

\* C24: Combine does not reject a share whose x-coordinate (byte 0) is 0:
\* for any otherwise valid share list with one share whose byte 0 is 0,
\* Combine returns without error exactly the payload bytes of that share,
\* whatever the other shares contain.
C24_ZeroXShareIsTheSecret ==
    (CombineReturned /\ StructurallyValid) =>
        \A i \in 1..Len(passed) :
            passed[i][1] = 0 =>
                (res.err = NoErr /\ res.secret = SubSeq(passed[i], 2, Len(passed[i])))

\* the second of three shares has x-coordinate 0 and payload 255, the
\* others have payload 1: Combine returned 255
C24_Witness ==
    /\ CombineReturned /\ StructurallyValid /\ Len(passed) = 3
    /\ passed[2] = <<0, 255>> /\ passed[1][2] = 1 /\ passed[3][2] = 1
    /\ res.err = NoErr /\ res.secret = <<255>>

\* every share handed over has between 2 and 5 bytes
AllShort == \A i \in 1..Len(passed) : Len(passed[i]) >= 2 /\ Len(passed[i]) < MinCheckedLen

\* C25: validateIntegrityCheck returns any input shorter than 6 bytes
\* unchanged and without error, so CombineWithIntegrity given shares of 2
\* to 5 bytes verifies no checksum and returns what Combine returns on
\* those shares.
C25_ShortSharesUnchecked ==
    CombineWithIntegrityReturned =>
        /\ \A i \in 1..Len(passed) :
              Len(passed[i]) < MinCheckedLen =>
                  validateIntegrityCheck(passed[i]) = [share |-> passed[i], err |-> NoErr]
        /\ AllShort => (res.err = Combine(passed).err /\ res.secret = Combine(passed).secret)

\* two shares of 5 bytes whose last 4 bytes are no checksum of anything
\* were combined into a 4-byte secret
C25_Witness ==
    /\ CombineWithIntegrityReturned /\ AllShort /\ Len(passed) = 2
    /\ passed[1] = <<1, 1, 2, 3, 4>> /\ passed[2] = <<2, 9, 8, 7, 6>>
    /\ res.err = NoErr /\ Len(res.secret) = 4

SplitSecureReturned == pc = "split" /\ api = "SplitSecure"

\* C26: whether SplitSecure succeeds does not depend on enforceThreshold:
\* for every (secret, parts, threshold) it returns an error with the flag
\* set exactly when it does with the flag clear; only the error value can
\* differ (with a non-empty secret and parts < threshold the flag yields
\* ErrInvalidThreshold even when parts itself is out of range).
C26_EnforceThresholdChangesOnlyTheError ==
    SplitSecureReturned =>
        \A rnd \in SecureRnd(passed[1], threshold) :
            LET t == SplitSecure(passed[1], parts, threshold, TRUE, rnd, rndFail)
                f == SplitSecure(passed[1], parts, threshold, FALSE, rnd, rndFail)
            IN /\ (t.err # NoErr) <=> (f.err # NoErr)
               /\ (out.err # NoErr) <=> (f.err # NoErr)
               /\ out.err \in {t.err, f.err}
               /\ (Len(passed[1]) > 0 /\ parts < threshold) => t.err = ErrInvalidThreshold

\* parts = 1 is out of range and below the threshold: the call with the
\* flag returned ErrInvalidThreshold where Split reports ErrInvalidParts
C26_Witness ==
    /\ SplitSecureReturned /\ Len(passed[1]) > 0
    /\ parts = 1 /\ threshold = 2
    /\ out.err = ErrInvalidThreshold
    /\ Split(passed[1], parts, threshold, << >>, 0).err = ErrInvalidParts

\* C27: the secure variants modify the caller's buffers only on success:
\* whenever SplitSecure returns an error the caller's secret buffer is
\* byte-for-byte unchanged, and whenever CombineSecure returns an error
\* (threshold, structural or duplicate) every input share buffer is
\* byte-for-byte unchanged.
C27_BuffersKeptOnError ==
    /\ (SplitSecureReturned /\ out.err # NoErr) => secret = passed[1]
    /\ (CombineSecureReturned /\ res.err # NoErr) => input = passed

\* CombineSecure found the same x-coordinate in the first and the last of
\* three shares and left their nonzero bytes as they were
C27_Witness ==
    /\ CombineSecureReturned /\ res.err = ErrDuplicatePart
    /\ Len(passed) = 3 /\ passed[1] = <<2, 1>> /\ passed[3] = <<2, 0>>
    /\ input = passed

\* Combine on the list the validator was given
CombineOfPassed == Combine(GoList(passed, vld.nil))

\* C28: the stand-alone validators and the inline checks accept exactly
\* the same inputs: for every share list (the nil list and lists with nil
\* shares included) validateCombineParams returns nil if and only if
\* Combine returns no error, for every (secret, parts, threshold)
\* validateSplitParams returns nil if and only if Split passes its
\* parameter checks, and neither Combine nor validateCombineParams panics.
C28_ValidatorsAgreeWithInlineChecks ==
    /\ (pc = "done" /\ vld.op = "validateCombineParams") =>
          /\ vld.err.type # "panic"
          /\ (vld.err.type = "nil") <=> (CombineOfPassed.err = NoErr)
          /\ CombineOfPassed.err = NoErr =>
                \A p \in 1..Len(CombineOfPassed.secret) : CombineOfPassed.secret[p] \in Byte
    /\ (pc = "done" /\ vld.op = "validateSplitParams") =>
          ((vld.err.type = "nil") <=> (SplitParamError(secret, parts, threshold) = NoErr))

\* a list whose second share is nil: the validator names the share,
\* Combine reports different lengths
C28_Witness ==
    /\ pc = "done" /\ vld.op = "validateCombineParams" /\ ~vld.nil
    /\ Len(passed) = 2 /\ passed[1] = <<1, 1>> /\ passed[2] = Nil
    /\ vld.err.type = "*ValidationError" /\ vld.err.Field = "share" /\ vld.err.Value = 1
    /\ CombineOfPassed.err = ErrDifferentLengths

====
